---- MODULE Spec2Model ----
(***************************************************************************)
(* The orchestration of the Pendulum CLI: `pendulum deploy` and its three   *)
(* earlier revisions, `pendulum destroy` (its delete-stack, its            *)
(* `cdk destroy` per stack and its checkStackExists variant), `pendulum    *)
(* init` and its two earlier revisions, `pendulum dev` in both revisions,  *)
(* and the helpers runCommand, checkAWSConfiguration, getAWSConfiguration  *)
(* and the account ID validator run on their own.  One behaviour follows   *)
(* one of them.  A command is one asynchronous routine; between two        *)
(* awaits it runs without interruption.  A state of the model is the       *)
(* routine suspended at an await (on a child process started by runCommand *)
(* or on an inquirer prompt); an action is the event that ends the await   *)
(* (the child's close/error event, the operator's answer) followed by the  *)
(* routine's code up to and including the start of the next await.         *)
(*                                                                         *)
(* Text (messages, typed input) is a sequence of tokens, so that "the      *)
(* message names the stack" and "the input is DESTROY after trimming" are  *)
(* statements about the text and not about an abstraction of it.           *)
(***************************************************************************)
EXTENDS Integers, Sequences, FiniteSets, TLC

VARIABLES
    cmd,                \* the command the operator started
    pc,                 \* the await the routine is suspended at, or "done"
    calls,              \* every child process spawned by runCommand, in order
    results,            \* TRUE/FALSE per settled child: its promise resolved
    prompts,            \* every inquirer prompt shown, in order
    out,                \* console and spinner lines, in order
    exitCode,           \* status the process ends with (process.exit(1) sets 1)
    proceed,            \* answer to the first confirm prompt
    confirmDeployment,  \* answer to "Proceed with deployment?"
    confirmDestruction, \* text returned by the phrase prompt
    attempts,           \* inputs the open phrase prompt has rejected so far
    awsRegion,          \* region chosen in getAWSConfiguration
    stacksToDestroy,    \* the list destroyStacks iterates over
    idx,                \* position of destroyStacks' for-of loop
    provisioned,        \* stacks that exist in the provisioning backend
    failedStack,        \* the stack the backend failed on during cdk deploy
    adminKey,           \* result of getAdminApiKey
    loadBalancerURL,    \* result of getLoadBalancerURL
    cloudFrontURL,      \* result of getCloudFrontURL
    lookups,            \* the post-deploy lookups started, in order
    lookupResults,      \* what each finished lookup met: found, absent, error
    arg,                \* the input of the function under study
    ret,                \* its result (a promise, a validator's answer)
    events,             \* the events the child of runCommand has emitted
    fsOps,              \* readFile / writeFile calls on package.json, in order
    packageJson         \* the package.json file on disk

vars ==
    << cmd, pc, calls, results, prompts, out, exitCode, proceed,
       confirmDeployment, confirmDestruction, attempts, awsRegion,
       stacksToDestroy, idx, provisioned, failedStack, adminKey,
       loadBalancerURL, cloudFrontURL, lookups, lookupResults, arg, ret,
       events, fsOps, packageJson >>

\* The variables only InitCommand and the single-function runs use.
others == << arg, ret, events, fsOps, packageJson >>

---------------------------------------------------------------------------
(* Bounds of the model. *)

\* Exit codes a child may close with are 0..MaxExitCode.
MaxExitCode == 1

\* How many rejected inputs the phrase prompt is followed through.
MaxAttempts == 2

\* How many events the child of a single runCommand call is followed through.
MaxEvents == 2

\* How many of the choices of the awsRegion list the operator selects from.
MaxRegions == 2

---------------------------------------------------------------------------
(* Stack names and the declared stack graph. *)

NetworkStack == "Pendulum-NetworkStack"
SecurityStack == "Pendulum-SecurityStack"
DatabaseStack == "Pendulum-DatabaseStack"
ApplicationStack == "Pendulum-ApplicationStack"
FrontendStack == "Pendulum-FrontendStack"

\* The stacks the CDK app declares, in declaration order.
DeclaredStacks ==
    << NetworkStack, SecurityStack, DatabaseStack, ApplicationStack,
       FrontendStack >>

\* addDependency edges: <<a, b>> means a depends on b.
DependsOn ==
    { << SecurityStack, NetworkStack >>,
      << DatabaseStack, SecurityStack >>,
      << ApplicationStack, DatabaseStack >>,
      << FrontendStack, ApplicationStack >> }

Range(s) == { s[k] : k \in 1..Len(s) }

AllStacks == Range(DeclaredStacks)

None == "none"
Null == "null"

---------------------------------------------------------------------------
(* runCommand: the promise settles from the child's event. *)

ExitCodes == 0..MaxExitCode

\* What a spawned child can do: close with an exit code, or emit error.
ChildOutcomes ==
    { [ev |-> "close", code |-> c, err |-> << >>] : c \in ExitCodes }
        \cup { [ev |-> "error", code |-> 0, err |-> << "spawn", "ENOENT" >>] }

\* The `code` argument of a close event whose child was ended by a signal:
\* null, an exit code no exit status equals.
NullExitCode == -1

\* `${code}` in the rejection message.
ExitCodeText(code) == IF code = NullExitCode THEN Null ELSE ToString(code)

Resolved == [ok |-> TRUE, message |-> << >>]
Rejected(msg) == [ok |-> FALSE, message |-> msg]

\* A close handler that resolves whatever the exit code.
runCommandAnyClose(outcome) ==
    IF outcome.ev = "close" THEN Resolved ELSE Rejected(outcome.err)

runCommand(outcome) ==
    IF outcome.ev = "close"
    THEN IF outcome.code = 0
         THEN Resolved
         ELSE Rejected(<< "Command failed with exit code",
                          ExitCodeText(outcome.code) >>)
    ELSE Rejected(outcome.err)

\* A catch block that rethrows the error it caught.
checkAWSConfigurationRethrows(outcome) == runCommand(outcome)

checkAWSConfiguration(outcome) ==
    IF runCommand(outcome).ok
    THEN Resolved
    ELSE Rejected(<< "Run 'aws configure' to set up your AWS credentials" >>)

\* Child processes, as runCommand's (command, args).
\* stdio is the option the caller passes ("inherit" is runCommand's default).
Child(prog, args, stdio) == [prog |-> prog, args |-> args, stdio |-> stdio]

AwsVersion == Child("aws", << "--version" >>, "pipe")
GetCallerIdentity(stdio) ==
    Child("aws", << "sts", "get-caller-identity" >>, stdio)

IsGetCallerIdentity(c) ==
    c.prog = "aws" /\ c.args = << "sts", "get-caller-identity" >>

DeleteStack(stack, region) ==
    Child("aws", << "cloudformation", "delete-stack", "--stack-name", stack,
                    "--region", region >>, "pipe")

WaitStackDeleteComplete(stack, region) ==
    Child("aws", << "cloudformation", "wait", "stack-delete-complete",
                    "--stack-name", stack, "--region", region >>, "pipe")

IsDeleteStack(c) ==
    c.prog = "aws" /\ Len(c.args) >= 4 /\ c.args[2] = "delete-stack"

IsWait(c) == c.prog = "aws" /\ Len(c.args) >= 4 /\ c.args[2] = "wait"

\* The stack a delete-stack or wait command names (--stack-name <stack>).
StackNameOf(c) == IF IsWait(c) THEN c.args[5] ELSE c.args[4]

IsCdk(c, verb) ==
    c.prog = "npx" /\ Len(c.args) >= 2 /\ c.args[1] = "cdk" /\ c.args[2] = verb

\* A destructive call: `aws cloudformation delete-stack` or `cdk destroy`.
IsDestructive(c) == IsDeleteStack(c) \/ IsCdk(c, "destroy")

---------------------------------------------------------------------------
(* Typed text: String.prototype.trim and the phrase prompt's validator. *)

\* The characters String.prototype.trim removes: ECMAScript's WhiteSpace and
\* LineTerminator.  A character TLA+ has no escape for is written by its
\* code point.
Whitespace ==
    { "\t", "\n", "U+000B", "\f", "\r", " ", "U+00A0", "U+1680",
      "U+2000", "U+2001", "U+2002", "U+2003", "U+2004", "U+2005", "U+2006",
      "U+2007", "U+2008", "U+2009", "U+200A", "U+2028", "U+2029", "U+202F",
      "U+205F", "U+3000", "U+FEFF" }

RECURSIVE TrimStart(_)
TrimStart(s) ==
    IF s # << >> /\ Head(s) \in Whitespace THEN TrimStart(Tail(s)) ELSE s

RECURSIVE TrimEnd(_)
TrimEnd(s) ==
    IF s # << >> /\ s[Len(s)] \in Whitespace
    THEN TrimEnd(SubSeq(s, 1, Len(s) - 1))
    ELSE s

Trim(s) == TrimEnd(TrimStart(s))

DESTROY == << "D", "E", "S", "T", "R", "O", "Y" >>

UpperOf ==
    [c \in { "d", "e", "s", "t", "r", "o", "y" } |->
        CASE c = "d" -> "D" [] c = "e" -> "E" [] c = "s" -> "S"
          [] c = "t" -> "T" [] c = "r" -> "R" [] c = "o" -> "O"
          [] c = "y" -> "Y"]

ToUpperCase(s) ==
    [k \in 1..Len(s) |-> IF s[k] \in DOMAIN UpperOf THEN UpperOf[s[k]] ELSE s[k]]

\* A validator that compares without regard to case.
validateIgnoreCase(input) ==
    IF ToUpperCase(Trim(input)) # DESTROY
    THEN Rejected(<< "You must type 'DESTROY' exactly to confirm" >>)
    ELSE Resolved

\* validate of the confirmDestruction prompt: accepts, or rejects with the
\* message inquirer shows before asking again.
validate(input) ==
    IF Trim(input) # DESTROY
    THEN Rejected(<< "You must type 'DESTROY' exactly to confirm" >>)
    ELSE Resolved

\* A check after the prompt that compares the text as typed.
confirmDestructionDeclinedUntrimmed(text) == text # DESTROY

\* The check DestroyCommand makes on the text the phrase prompt returned:
\* TRUE sends the run to "Destruction cancelled." and return.
confirmDestructionDeclined(text) == Trim(text) # DESTROY

\* What the operator may type at the phrase prompt.
PhraseInputs ==
    { DESTROY,
      << "d", "e", "s", "t", "r", "o", "y" >>,
      << "D", "e", "s", "t", "r", "o", "y" >>,
      << "D", "E", "S", "T", "R", "O" >>,
      << "D", "E", "S", "T", "R", "O", "Y", "!" >>,
      << " ", "D", "E", "S", "T", "R", "O", "Y" >>,
      << "U+00A0", "D", "E", "S", "T", "R", "O", "Y", " ", "\r", "\n" >>,
      << "D", "E", "S", "T", "R", "O", "Y", "U+200B" >>,
      << "D", "E", "S", " ", "T", "R", "O", "Y" >>,
      << " " >>,
      << >> }

\* The values of the choices of the awsRegion list, in the order offered.
RegionChoices ==
    << "us-east-1", "us-east-2", "us-west-2", "us-west-1", "eu-west-1",
       "eu-west-2", "eu-central-1", "ap-southeast-2", "ap-northeast-1",
       "ap-southeast-1" >>

\* The regions an operator of the model selects: the first MaxRegions choices.
Regions ==
    { RegionChoices[k] :
        k \in 1..(IF MaxRegions < Len(RegionChoices)
                  THEN MaxRegions ELSE Len(RegionChoices)) }

---------------------------------------------------------------------------
(* `pendulum destroy`, the variant that deletes with                       *)
(* `aws cloudformation delete-stack`.                                      *)

\* The list in deploy order, network first.
potentialStacksDeployOrder ==
    << NetworkStack, SecurityStack, DatabaseStack, ApplicationStack,
       FrontendStack >>

\* listAllStacks' list, in the order destroyStacks walks it.
potentialStacks ==
    << FrontendStack, ApplicationStack, DatabaseStack, SecurityStack,
       NetworkStack >>

listAllStacks(outcome) ==
    IF runCommand(outcome).ok
    THEN Resolved
    ELSE Rejected(<< "AWS CLI error:" >> \o runCommand(outcome).message)

DestroyWarningLines ==
    << << "WARNING: This action is irreversible!" >>,
       << "All data in your Pendulum deployment will be permanently lost." >> >>

DestroySuccessLines ==
    << << "Pendulum successfully destroyed from AWS!" >>,
       << "AWS billing should stop for these resources." >> >>

\* The catch block of DestroyCommand.
DestroyCatch(error, lines) ==
    /\ out' = lines
           \o << << "Destruction failed:" >> \o error,
                 << "Troubleshooting tips:" >>,
                 << "- Ensure AWS credentials are configured (aws configure)" >> >>
    /\ exitCode' = 1
    /\ pc' = "done"

CouldntDestroy(stack, error) ==
    << << "Couldn't destroy", stack, ":" >> \o error,
       << "This might be normal if stack doesn't exist" >> >>

\* destroyStacks' for-of loop arriving at position k of `stacks`, with `lines`
\* printed so far and `spawned` the children started so far: either the next
\* delete-stack is started, or the loop is over and DestroyCommand prints its
\* success message and returns.
destroyStacks(stacks, k, lines, spawned) ==
    /\ idx' = k
    /\ exitCode' = exitCode
    /\ IF k <= Len(stacks)
       THEN /\ calls' = Append(spawned, DeleteStack(stacks[k], awsRegion))
            /\ out' = lines
            /\ pc' = "D_delete"
       ELSE /\ calls' = spawned
            /\ out' = lines \o DestroySuccessLines
            /\ pc' = "done"

DestroyCommand_version ==
    /\ pc = "D_version"
    /\ \E o \in ChildOutcomes :
        /\ results' = Append(results, runCommand(o).ok)
        /\ IF runCommand(o).ok
           THEN /\ prompts' = Append(prompts, "proceed")
                /\ pc' = "D_proceed"
                /\ out' = out
           ELSE /\ out' = out \o << << "AWS CLI not found!" >> >>
                /\ pc' = "done"
                /\ prompts' = prompts
    /\ UNCHANGED << cmd, calls, exitCode, proceed, confirmDeployment,
                    confirmDestruction, attempts, awsRegion, stacksToDestroy,
                    idx, provisioned, failedStack, adminKey, loadBalancerURL,
                    cloudFrontURL, lookups,
                    lookupResults, others >>

\* A confirm prompt whose answer is recorded and not acted upon.
DestroyCommand_proceedIgnored ==
    /\ pc = "D_proceed"
    /\ \E answer \in BOOLEAN : proceed' = answer
    /\ prompts' = Append(prompts, "getAWSConfiguration")
    /\ pc' = "D_awsConfig"
    /\ UNCHANGED << cmd, calls, results, out, exitCode, confirmDeployment,
                    confirmDestruction, attempts, awsRegion, stacksToDestroy,
                    idx, provisioned, failedStack, adminKey, loadBalancerURL,
                    cloudFrontURL, lookups,
                    lookupResults, others >>

DestroyCommand_proceed ==
    /\ pc = "D_proceed"
    /\ \E answer \in BOOLEAN :
        /\ proceed' = answer
        /\ IF answer
           THEN /\ prompts' = Append(prompts, "getAWSConfiguration")
                /\ pc' = "D_awsConfig"
                /\ out' = out
           ELSE /\ out' = out \o << << "Desctruction cancelled." >> >>
                /\ pc' = "done"
                /\ prompts' = prompts
    /\ UNCHANGED << cmd, calls, results, exitCode, confirmDeployment,
                    confirmDestruction, attempts, awsRegion, stacksToDestroy,
                    idx, provisioned, failedStack, adminKey, loadBalancerURL,
                    cloudFrontURL, lookups,
                    lookupResults, others >>

DestroyCommand_getAWSConfiguration ==
    /\ pc = "D_awsConfig"
    /\ \E region \in Regions : awsRegion' = region
    /\ out' = out \o DestroyWarningLines
    /\ prompts' = Append(prompts, "confirmDestruction")
    /\ pc' = "D_phrase"
    /\ UNCHANGED << cmd, calls, results, exitCode, proceed, confirmDeployment,
                    confirmDestruction, attempts, stacksToDestroy, idx,
                    provisioned, failedStack, adminKey, loadBalancerURL,
                    cloudFrontURL, lookups,
                    lookupResults, others >>

\* The phrase prompt: inquirer asks again while validate rejects; once it
\* accepts, the prompt returns the text and DestroyCommand checks it again.
\* The count of rejected inputs belongs to the open prompt and ends with it.
DestroyCommand_confirmDestruction ==
    /\ pc = "D_phrase"
    /\ \E input \in PhraseInputs :
        IF ~validate(input).ok
        THEN /\ attempts < MaxAttempts
             /\ attempts' = attempts + 1
             /\ UNCHANGED << pc, calls, out, confirmDestruction >>
        ELSE /\ confirmDestruction' = input
             /\ attempts' = 0
             /\ IF confirmDestructionDeclined(input)
                THEN /\ out' = out \o << << "Destruction cancelled." >> >>
                     /\ pc' = "done"
                     /\ calls' = calls
                ELSE /\ calls' = Append(calls, GetCallerIdentity("inherit"))
                     /\ pc' = "D_identity"
                     /\ out' = out
    /\ UNCHANGED << cmd, results, prompts, exitCode, proceed,
                    confirmDeployment, awsRegion, stacksToDestroy, idx,
                    provisioned, failedStack, adminKey, loadBalancerURL,
                    cloudFrontURL, lookups,
                    lookupResults, others >>

DestroyCommand_checkAWSConfiguration ==
    /\ cmd \in { "destroy", "destroyCdk" }
    /\ pc = "D_identity"
    /\ \E o \in ChildOutcomes :
        LET r == checkAWSConfiguration(o) IN
        /\ results' = Append(results, r.ok)
        /\ IF r.ok
           THEN /\ calls' = Append(calls, GetCallerIdentity("pipe"))
                /\ out' = out \o << << "AWS credentials configured" >> >>
                /\ pc' = "D_list"
                /\ exitCode' = exitCode
           ELSE /\ DestroyCatch(r.message,
                        out \o << << "AWS credentials not configured" >> >>)
                /\ calls' = calls
    /\ UNCHANGED << cmd, prompts, proceed, confirmDeployment,
                    confirmDestruction, attempts, awsRegion, stacksToDestroy,
                    idx, provisioned, failedStack, adminKey, loadBalancerURL,
                    cloudFrontURL, lookups,
                    lookupResults, others >>

DestroyCommand_listAllStacks ==
    /\ cmd = "destroy"
    /\ pc = "D_list"
    /\ \E o \in ChildOutcomes :
        LET r == listAllStacks(o) IN
        /\ results' = Append(results, r.ok)
        /\ IF r.ok
           THEN /\ stacksToDestroy' = potentialStacks
                /\ destroyStacks(potentialStacks, 1,
                        out \o << << "Destroy Info:" >> >>, calls)
           ELSE /\ DestroyCatch(r.message,
                        out \o << << "Failed to connect to AWS" >> >>)
                /\ UNCHANGED << calls, stacksToDestroy, idx >>
    /\ UNCHANGED << cmd, prompts, proceed, confirmDeployment,
                    confirmDestruction, attempts, awsRegion, provisioned,
                    failedStack, adminKey, loadBalancerURL, cloudFrontURL, lookups,
                    lookupResults, others >>

\* A loop whose try/catch is around the loop rather than inside it: the first
\* delete-stack that fails ends the loop and reaches DestroyCommand's catch.
destroyStacks_deleteStackHalts ==
    /\ pc = "D_delete"
    /\ \E o \in ChildOutcomes :
        LET r == runCommand(o)
            stack == stacksToDestroy[idx]
        IN
        /\ results' = Append(results, r.ok)
        /\ IF r.ok
           THEN /\ calls' = Append(calls,
                        WaitStackDeleteComplete(stack, awsRegion))
                /\ out' = out \o << << "Initiated deletion of:", stack >> >>
                /\ pc' = "D_wait"
                /\ UNCHANGED << idx, exitCode >>
           ELSE /\ DestroyCatch(r.message, out)
                /\ UNCHANGED << idx, calls >>
    /\ UNCHANGED << cmd, prompts, proceed, confirmDeployment,
                    confirmDestruction, attempts, awsRegion, stacksToDestroy,
                    provisioned, failedStack, adminKey, loadBalancerURL,
                    cloudFrontURL, lookups,
                    lookupResults, others >>

\* A loop body that waits for the deletion whether or not it was initiated.
destroyStacks_deleteStackAlwaysWaits ==
    /\ pc = "D_delete"
    /\ \E o \in ChildOutcomes :
        LET r == runCommand(o)
            stack == stacksToDestroy[idx]
        IN
        /\ results' = Append(results, r.ok)
        /\ calls' = Append(calls, WaitStackDeleteComplete(stack, awsRegion))
        /\ out' = out \o << << "Initiated deletion of:", stack >> >>
        /\ pc' = "D_wait"
        /\ UNCHANGED << idx, exitCode >>
    /\ UNCHANGED << cmd, prompts, proceed, confirmDeployment,
                    confirmDestruction, attempts, awsRegion, stacksToDestroy,
                    provisioned, failedStack, adminKey, loadBalancerURL,
                    cloudFrontURL, lookups, lookupResults, others >>

\* The delete-stack child of the current stack settles.
destroyStacks_deleteStack ==
    /\ pc = "D_delete"
    /\ \E o \in ChildOutcomes :
        LET r == runCommand(o)
            stack == stacksToDestroy[idx]
        IN
        /\ results' = Append(results, r.ok)
        /\ IF r.ok
           THEN /\ calls' = Append(calls,
                        WaitStackDeleteComplete(stack, awsRegion))
                /\ out' = out \o << << "Initiated deletion of:", stack >> >>
                /\ pc' = "D_wait"
                /\ UNCHANGED << idx, exitCode >>
           ELSE destroyStacks(stacksToDestroy, idx + 1,
                    out \o CouldntDestroy(stack, r.message), calls)
    /\ UNCHANGED << cmd, prompts, proceed, confirmDeployment,
                    confirmDestruction, attempts, awsRegion, stacksToDestroy,
                    provisioned, failedStack, adminKey, loadBalancerURL,
                    cloudFrontURL, lookups,
                    lookupResults, others >>

\* The wait child of the current stack settles.
destroyStacks_wait ==
    /\ pc = "D_wait"
    /\ \E o \in ChildOutcomes :
        LET r == runCommand(o)
            stack == stacksToDestroy[idx]
        IN
        /\ results' = Append(results, r.ok)
        /\ IF r.ok
           THEN /\ provisioned' = provisioned \ { stack }
                /\ destroyStacks(stacksToDestroy, idx + 1,
                        out \o << << "Successfully destroyed:", stack >> >>,
                        calls)
           ELSE /\ provisioned' = provisioned
                /\ destroyStacks(stacksToDestroy, idx + 1,
                        out \o CouldntDestroy(stack, r.message), calls)
    /\ UNCHANGED << cmd, prompts, proceed, confirmDeployment,
                    confirmDestruction, attempts, awsRegion, stacksToDestroy,
                    failedStack, adminKey, loadBalancerURL, cloudFrontURL, lookups,
                    lookupResults, others >>

DestroyCommand ==
    \/ DestroyCommand_version
    \/ DestroyCommand_proceed
    \/ DestroyCommand_getAWSConfiguration
    \/ DestroyCommand_confirmDestruction
    \/ DestroyCommand_checkAWSConfiguration
    \/ DestroyCommand_listAllStacks
    \/ destroyStacks_deleteStack
    \/ destroyStacks_wait

---------------------------------------------------------------------------
(* `pendulum deploy`. *)

\* The list with the security stack ahead of the network stack it needs.
backendStacksSwapped ==
    << SecurityStack, NetworkStack, DatabaseStack, ApplicationStack >>

backendStacks ==
    << NetworkStack, SecurityStack, DatabaseStack, ApplicationStack >>

NpmInstall == Child("npm", << "install" >>, "inherit,ignore,inherit")

CdkBootstrap ==
    Child("npx", << "cdk", "bootstrap", "aws://account/region", "--ci" >>,
          "inherit,ignore,inherit")

CdkDeployBackend ==
    Child("npx",
          << "cdk", "deploy" >> \o backendStacks
              \o << "--require-approval", "never", "--outputs-file",
                    "backend-outputs.json", "--ci" >>,
          "inherit,ignore,inherit")

\* A second command that deploys every stack of the app again.
CdkDeployFrontendAll ==
    Child("npx",
          << "cdk", "deploy" >> \o DeclaredStacks
              \o << "--require-approval", "never", "--outputs-file",
                    "frontend-outputs.json", "--ci" >>,
          "inherit,ignore,inherit")

CdkDeployFrontend ==
    Child("npx",
          << "cdk", "deploy", FrontendStack, "--require-approval", "never",
             "--outputs-file", "frontend-outputs.json", "--ci" >>,
          "inherit,ignore,inherit")

\* The frontend stack's apiEndpoint parameter: "http://" followed by a
\* reference to an attribute of the application stack's load balancer.
apiEndpoint ==
    [scheme |-> "http://", stack |-> ApplicationStack,
     attribute |-> "loadBalancerDnsName"]

IsStackName(a) == a \in AllStacks

\* The stacks a cdk command names, in the order of its arguments.
StacksNamed(c) == SelectSeq(c.args, IsStackName)

\* The order in which DeployCommand asks for the stacks: the backend command's
\* list, then the frontend command's stack.
DeployOrder == StacksNamed(CdkDeployBackend) \o StacksNamed(CdkDeployFrontend)

\* A post-deploy lookup finds the value, finds nothing, or throws.
LookupOutcomes == { "found", "absent", "error" }

\* A lookup that hands back what the SDK gave it, without the null fallback.
LookupNoFallback(outcome, value) ==
    IF outcome = "found" THEN value
    ELSE IF outcome = "absent" THEN "undefined" ELSE Null

\* getAdminApiKey, getLoadBalancerURL, getCloudFrontURL: the value, or null
\* when nothing is found or the SDK call throws.
Lookup(outcome, value) == IF outcome = "found" THEN value ELSE Null

DeploySuccessLines ==
    << << "Pendulum successfully deployed to AWS!" >>,
       << "To update deployment, rerun 'pendulum deploy'" >> >>

\* A catch block that reports the failure and forgets process.exit(1).
DeployCatchNoExit(error, lines) ==
    /\ out' = lines \o << << "Deployment failed:" >> \o error >>
    /\ exitCode' = exitCode
    /\ pc' = "done"

\* The catch block of DeployCommand.
DeployCatch(error, lines) ==
    /\ out' = lines
           \o << << "Deployment failed:" >> \o error,
                 << "Troubleshooting tips:" >>,
                 << "Ensure AWS credentials are configured (aws configure)" >> >>
    /\ exitCode' = 1
    /\ pc' = "done"

DeployCommand_proceed ==
    /\ pc = "P_proceed"
    /\ \E answer \in BOOLEAN :
        /\ proceed' = answer
        /\ IF answer
           THEN /\ prompts' = Append(prompts, "getAWSConfiguration")
                /\ pc' = "P_awsConfig"
                /\ out' = out
           ELSE /\ out' = out \o << << "Deployment cancelled." >> >>
                /\ pc' = "done"
                /\ prompts' = prompts
    /\ UNCHANGED << cmd, calls, results, exitCode, confirmDeployment,
                    confirmDestruction, attempts, awsRegion, stacksToDestroy,
                    idx, provisioned, failedStack, adminKey, loadBalancerURL,
                    cloudFrontURL, lookups,
                    lookupResults, others >>

DeployCommand_getAWSConfiguration ==
    /\ pc = "P_awsConfig"
    /\ \E region \in Regions : awsRegion' = region
    /\ prompts' = Append(prompts, "getFrontendConfigration")
    /\ pc' = "P_frontendConfig"
    /\ UNCHANGED << cmd, calls, results, out, exitCode, proceed,
                    confirmDeployment, confirmDestruction, attempts,
                    stacksToDestroy, idx, provisioned, failedStack, adminKey,
                    loadBalancerURL, cloudFrontURL, lookups,
                    lookupResults, others >>

DeployCommand_getFrontendConfigration ==
    /\ pc = "P_frontendConfig"
    /\ out' = out \o << << "Deployment Summary:" >>,
                        << "Backend: Pendulum BaaS (4 stacks)" >> >>
    /\ prompts' = Append(prompts, "confirmDeployment")
    /\ pc' = "P_confirm"
    /\ UNCHANGED << cmd, calls, results, exitCode, proceed, confirmDeployment,
                    confirmDestruction, attempts, awsRegion, stacksToDestroy,
                    idx, provisioned, failedStack, adminKey, loadBalancerURL,
                    cloudFrontURL, lookups,
                    lookupResults, others >>

\* A second gate that starts the deployment whatever the operator answers.
DeployCommand_confirmDeploymentIgnored ==
    /\ pc = "P_confirm"
    /\ \E answer \in BOOLEAN : confirmDeployment' = answer
    /\ calls' = Append(calls, GetCallerIdentity("inherit"))
    /\ pc' = "P_identity"
    /\ UNCHANGED << cmd, results, prompts, out, exitCode, proceed,
                    confirmDestruction, attempts, awsRegion, stacksToDestroy,
                    idx, provisioned, failedStack, adminKey, loadBalancerURL,
                    cloudFrontURL, lookups, lookupResults, others >>

DeployCommand_confirmDeployment ==
    /\ pc = "P_confirm"
    /\ \E answer \in BOOLEAN :
        /\ confirmDeployment' = answer
        /\ IF answer
           THEN /\ calls' = Append(calls, GetCallerIdentity("inherit"))
                /\ pc' = "P_identity"
                /\ out' = out
           ELSE /\ out' = out \o << << "Deployment cancelled." >> >>
                /\ pc' = "done"
                /\ calls' = calls
    /\ UNCHANGED << cmd, results, prompts, exitCode, proceed,
                    confirmDestruction, attempts, awsRegion, stacksToDestroy,
                    idx, provisioned, failedStack, adminKey, loadBalancerURL,
                    cloudFrontURL, lookups,
                    lookupResults, others >>

\* An identity check whose failure is reported and then passed over.
DeployCommand_checkAWSConfigurationPassedOver ==
    /\ pc = "P_identity"
    /\ \E o \in ChildOutcomes :
        LET r == checkAWSConfiguration(o) IN
        /\ results' = Append(results, r.ok)
        /\ out' = out \o << << IF r.ok
                               THEN "AWS credentials configured"
                               ELSE "AWS credentials not configured" >> >>
    /\ calls' = Append(calls, NpmInstall)
    /\ pc' = "P_install"
    /\ UNCHANGED << cmd, prompts, exitCode, proceed, confirmDeployment,
                    confirmDestruction, attempts, awsRegion, stacksToDestroy,
                    idx, provisioned, failedStack, adminKey, loadBalancerURL,
                    cloudFrontURL, lookups, lookupResults, others >>

DeployCommand_checkAWSConfiguration ==
    /\ pc = "P_identity"
    /\ \E o \in ChildOutcomes :
        LET r == checkAWSConfiguration(o) IN
        /\ results' = Append(results, r.ok)
        /\ IF r.ok
           THEN /\ calls' = Append(calls, NpmInstall)
                /\ out' = out \o << << "AWS credentials configured" >> >>
                /\ pc' = "P_install"
                /\ exitCode' = exitCode
           ELSE /\ DeployCatch(r.message,
                        out \o << << "AWS credentials not configured" >> >>)
                /\ calls' = calls
    /\ UNCHANGED << cmd, prompts, proceed, confirmDeployment,
                    confirmDestruction, attempts, awsRegion, stacksToDestroy,
                    idx, provisioned, failedStack, adminKey, loadBalancerURL,
                    cloudFrontURL, lookups,
                    lookupResults, others >>

\* A dependency install that warns about a failure and lets the run go on.
installCDKDependenciesSwallowed ==
    /\ pc = "P_install"
    /\ \E o \in ChildOutcomes :
        LET r == runCommand(o) IN
        /\ results' = Append(results, r.ok)
        /\ out' = out \o << << IF r.ok
                               THEN "CDK dependencies installed"
                               ELSE "Failed to install CDK dependencies" >> >>
    /\ calls' = Append(calls, CdkBootstrap)
    /\ pc' = "P_bootstrap"
    /\ UNCHANGED << cmd, prompts, exitCode, proceed, confirmDeployment,
                    confirmDestruction, attempts, awsRegion, stacksToDestroy,
                    idx, provisioned, failedStack, adminKey, loadBalancerURL,
                    cloudFrontURL, lookups, lookupResults, others >>

installCDKDependencies ==
    /\ pc = "P_install"
    /\ \E o \in ChildOutcomes :
        LET r == runCommand(o) IN
        /\ results' = Append(results, r.ok)
        /\ IF r.ok
           THEN /\ calls' = Append(calls, CdkBootstrap)
                /\ out' = out \o << << "CDK dependencies installed" >> >>
                /\ pc' = "P_bootstrap"
                /\ exitCode' = exitCode
           ELSE /\ DeployCatch(r.message,
                        out \o << << "Failed to install CDK dependencies" >> >>)
                /\ calls' = calls
    /\ UNCHANGED << cmd, prompts, proceed, confirmDeployment,
                    confirmDestruction, attempts, awsRegion, stacksToDestroy,
                    idx, provisioned, failedStack, adminKey, loadBalancerURL,
                    cloudFrontURL, lookups,
                    lookupResults, others >>

\* bootstrapCDK swallows a failure: the backend deploy starts either way.
bootstrapCDK ==
    /\ pc = "P_bootstrap"
    /\ \E o \in ChildOutcomes :
        LET r == runCommand(o) IN
        /\ results' = Append(results, r.ok)
        /\ out' = out \o << << IF r.ok
                               THEN "AWS CDK environment bootstrapped"
                               ELSE "CDK bootstrap may have already been completed or failed" >> >>
    /\ calls' = Append(calls, CdkDeployBackend)
    /\ pc' = "P_backend"
    /\ UNCHANGED << cmd, prompts, exitCode, proceed, confirmDeployment,
                    confirmDestruction, attempts, awsRegion, stacksToDestroy,
                    idx, provisioned, failedStack, adminKey, loadBalancerURL,
                    cloudFrontURL, lookups,
                    lookupResults, others >>

\* The backend's side of one `cdk deploy` child naming `stacks`: with exit
\* code 0 every stack was provisioned; with another exit code the toolkit
\* stopped at position k (k = 0: before the first stack, e.g. at synthesis),
\* leaving the stacks before k provisioned; a child that could not be spawned
\* touched nothing.
CdkDeployEffect(o, stacks, k) ==
    IF o.ev = "close" /\ o.code = 0
    THEN /\ provisioned' = provisioned \cup Range(stacks)
         /\ failedStack' = failedStack
    ELSE IF o.ev = "close"
    THEN /\ provisioned' =
              provisioned \cup { stacks[j] : j \in 1..(IF k = 0 THEN 0 ELSE k - 1) }
         /\ failedStack' = IF k = 0 THEN None ELSE stacks[k]
    ELSE /\ provisioned' = provisioned
         /\ failedStack' = failedStack

deployBackendStacks ==
    /\ pc = "P_backend"
    /\ \E o \in ChildOutcomes, k \in 0..Len(backendStacks) :
        LET r == runCommand(o) IN
        /\ (r.ok \/ o.ev = "error") => k = 0
        /\ CdkDeployEffect(o, StacksNamed(calls[Len(calls)]), k)
        /\ results' = Append(results, r.ok)
        /\ IF r.ok
           THEN /\ calls' = Append(calls, CdkDeployFrontend)
                /\ out' = out \o << << "Pendulum backend stacks deployed successfully" >> >>
                /\ pc' = "P_frontend"
                /\ exitCode' = exitCode
           ELSE /\ DeployCatch(r.message,
                        out \o << << "Failed to deploy Pendulum backend stacks" >> >>)
                /\ calls' = calls
    /\ UNCHANGED << cmd, prompts, proceed, confirmDeployment,
                    confirmDestruction, attempts, awsRegion, stacksToDestroy,
                    idx, adminKey, loadBalancerURL, cloudFrontURL, lookups,
                    lookupResults, others >>

\* A frontend step that answers a failure by tearing down what was deployed.
deployFrontendStackRollback ==
    /\ pc = "P_frontend"
    /\ \E o \in ChildOutcomes :
        LET r == runCommand(o) IN
        /\ results' = Append(results, r.ok)
        /\ failedStack' = failedStack
        /\ IF r.ok
           THEN /\ provisioned' = provisioned \cup { FrontendStack }
                /\ out' = out \o << << "Frontend stack deployed successfully" >> >>
                /\ lookups' = Append(lookups, "getAdminApiKey")
                /\ pc' = "P_adminKey"
                /\ UNCHANGED << calls, exitCode >>
           ELSE /\ provisioned' = { }
                /\ calls' = Append(calls,
                        Child("npx", << "cdk", "destroy", "--all", "--force" >>,
                              "inherit"))
                /\ DeployCatch(r.message,
                        out \o << << "Failed to deploy frontend stack" >> >>)
                /\ lookups' = lookups
    /\ UNCHANGED << cmd, prompts, proceed, confirmDeployment,
                    confirmDestruction, attempts, awsRegion, stacksToDestroy,
                    idx, adminKey, loadBalancerURL, cloudFrontURL,
                    lookupResults, others >>

deployFrontendStack ==
    /\ pc = "P_frontend"
    /\ \E o \in ChildOutcomes, k \in 0..1 :
        LET r == runCommand(o) IN
        /\ (r.ok \/ o.ev = "error") => k = 0
        /\ CdkDeployEffect(o, StacksNamed(calls[Len(calls)]), k)
        /\ results' = Append(results, r.ok)
        /\ IF r.ok
           THEN /\ out' = out \o << << "Frontend stack deployed successfully" >> >>
                /\ lookups' = Append(lookups, "getAdminApiKey")
                /\ pc' = "P_adminKey"
                /\ exitCode' = exitCode
           ELSE /\ DeployCatch(r.message,
                        out \o << << "Failed to deploy frontend stack" >> >>)
                /\ lookups' = lookups
    /\ UNCHANGED << cmd, calls, prompts, proceed, confirmDeployment,
                    confirmDestruction, attempts, awsRegion, stacksToDestroy,
                    idx, adminKey, loadBalancerURL, cloudFrontURL,
                    lookupResults, others >>

\* getAdminApiKey returns: the spinner's line is printed, the key or null
\* is handed to DeployCommand, and getLoadBalancerURL is called.
getAdminApiKey(l, lines) ==
    /\ lookupResults' = Append(lookupResults, l)
    /\ adminKey' = Lookup(l, "admin-key")
    /\ out' = out \o lines
    /\ lookups' = Append(lookups, "getLoadBalancerURL")
    /\ pc' = "P_loadBalancerURL"

\* The lines of getAdminApiKey's catch block.
AdminKeyCatchLines ==
    << << "Failed to retrieve admin API key" >>,
       << "Warning: Could not retrieve admin key. Check AWS permissions." >> >>

\* listExports answers with the export PendulumAdminApiKeyArn, without it
\* (or without a Value for it), or rejects.
ListExportsOutcomes == { "found", "absent", "error" }

\* getSecretValue answers with a secret holding admin-key, with no
\* SecretString, with a SecretString that holds no admin-key, with one
\* JSON.parse throws on, or rejects.
SecretValueOutcomes ==
    { "found", "noSecretString", "noAdminKey", "invalidJson", "error" }

getAdminApiKey_listExports ==
    /\ pc = "P_adminKey"
    /\ \E l \in ListExportsOutcomes :
        CASE l = "found" ->
                /\ pc' = "P_secretValue"
                /\ UNCHANGED << lookupResults, adminKey, out, lookups >>
          [] l = "absent" ->
                getAdminApiKey("absent",
                    << << "Could not find admin API key ARN in CloudFormation exports" >> >>)
          [] l = "error" -> getAdminApiKey("error", AdminKeyCatchLines)
    /\ UNCHANGED << cmd, calls, results, prompts, exitCode, proceed,
                    confirmDeployment, confirmDestruction, attempts, awsRegion,
                    stacksToDestroy, idx, provisioned, failedStack,
                    loadBalancerURL, cloudFrontURL,
                    others >>

getAdminApiKey_getSecretValue ==
    /\ pc = "P_secretValue"
    /\ \E l \in SecretValueOutcomes :
        CASE l = "found" ->
                getAdminApiKey("found", << << "Admin API key retrieved" >> >>)
          [] l = "noSecretString" ->
                getAdminApiKey("absent",
                    << << "Admin API key secret has no value" >> >>)
          [] l = "noAdminKey" ->
                getAdminApiKey("absent",
                    << << "Admin key not found in secret" >> >>)
          [] l \in { "invalidJson", "error" } ->
                getAdminApiKey("error", AdminKeyCatchLines)
    /\ UNCHANGED << cmd, calls, results, prompts, exitCode, proceed,
                    confirmDeployment, confirmDestruction, attempts, awsRegion,
                    stacksToDestroy, idx, provisioned, failedStack,
                    loadBalancerURL, cloudFrontURL,
                    others >>

getLoadBalancerURL ==
    /\ pc = "P_loadBalancerURL"
    /\ \E l \in LookupOutcomes :
        /\ lookupResults' = Append(lookupResults, l)
        /\ loadBalancerURL' = Lookup(l, "LoadBalancerURL")
        /\ out' = IF l = "error"
                  THEN out \o << << "Could not retrieve load balancer URL" >> >>
                  ELSE out
    /\ lookups' = Append(lookups, "getCloudFrontURL")
    /\ pc' = "P_cloudFrontURL"
    /\ UNCHANGED << cmd, calls, results, prompts, exitCode, proceed,
                    confirmDeployment, confirmDestruction, attempts, awsRegion,
                    stacksToDestroy, idx, provisioned, failedStack, adminKey,
                    cloudFrontURL,
                    others >>

\* The last lookup; DeployCommand then prints its success message and returns.
getCloudFrontURL ==
    /\ pc = "P_cloudFrontURL"
    /\ \E l \in LookupOutcomes :
        /\ lookupResults' = Append(lookupResults, l)
        /\ cloudFrontURL' = Lookup(l, "FrontendUrl")
        /\ out' = (IF l = "error"
                   THEN out \o << << "Could not retrieve CloudFront URL" >> >>
                   ELSE out) \o DeploySuccessLines
    /\ pc' = "done"
    /\ UNCHANGED << cmd, calls, results, prompts, exitCode, proceed,
                    confirmDeployment, confirmDestruction, attempts, awsRegion,
                    stacksToDestroy, idx, provisioned, failedStack, adminKey,
                    loadBalancerURL, lookups,
                    others >>

DeployCommand ==
    \/ DeployCommand_proceed
    \/ DeployCommand_getAWSConfiguration
    \/ DeployCommand_getFrontendConfigration
    \/ DeployCommand_confirmDeployment
    \/ DeployCommand_checkAWSConfiguration
    \/ installCDKDependencies
    \/ bootstrapCDK
    \/ deployBackendStacks
    \/ deployFrontendStack
    \/ getAdminApiKey_listExports
    \/ getAdminApiKey_getSecretValue
    \/ getLoadBalancerURL
    \/ getCloudFrontURL

---------------------------------------------------------------------------
(* `pendulum destroy`, the variant that destroys with `cdk destroy`.  Its   *)
(* prompts, its identity check and its catch block are the code of the     *)
(* delete-stack variant, so it runs through the same actions from the first *)
(* confirmation to listAllStacks; it differs in its first step (it looks    *)
(* for the CLI's package.json) and in destroyStacks.                        *)

CliPackageJson == "cli/package.json"

\* Array.prototype.reverse.
ArrayReverse(s) == [k \in 1..Len(s) |-> s[Len(s) + 1 - k]]

CdkDestroy(stack) ==
    Child("npx", << "cdk", "destroy", stack, "--force" >>, "inherit")

\* destroyStacks' for-of loop arriving at position k of the array it walks.
destroyStacksCdk(stacks, k, lines, spawned) ==
    /\ idx' = k
    /\ exitCode' = exitCode
    /\ IF k <= Len(stacks)
       THEN /\ calls' = Append(spawned, CdkDestroy(stacks[k]))
            /\ out' = lines \o << << "Attempting to destroy:", stacks[k] >> >>
            /\ pc' = "K_destroy"
       ELSE /\ calls' = spawned
            /\ out' = lines \o DestroySuccessLines
            /\ pc' = "done"

\* fs.access on the CLI's package.json settles.
DestroyCdk_access ==
    /\ pc = "K_access"
    /\ \E found \in BOOLEAN :
        IF found
        THEN /\ out' = out \o << << "CLI files found" >> >>
             /\ prompts' = Append(prompts, "proceed")
             /\ pc' = "D_proceed"
        ELSE /\ out' = out \o << << "Pendulum project not found!" >> >>
             /\ prompts' = prompts
             /\ pc' = "done"
    /\ UNCHANGED << cmd, calls, results, exitCode, proceed, confirmDeployment,
                    confirmDestruction, attempts, awsRegion, stacksToDestroy,
                    idx, provisioned, failedStack, adminKey, loadBalancerURL,
                    cloudFrontURL, lookups, lookupResults, others >>

\* listAllStacks' identity call settles; on success destroyStacks starts and
\* its loop header reverses the array it was given.
DestroyCdk_listAllStacks ==
    /\ cmd = "destroyCdk"
    /\ pc = "D_list"
    /\ \E o \in ChildOutcomes :
        LET r == listAllStacks(o) IN
        /\ results' = Append(results, r.ok)
        /\ IF r.ok
           THEN /\ stacksToDestroy' = ArrayReverse(potentialStacks)
                /\ destroyStacksCdk(ArrayReverse(potentialStacks), 1,
                        out \o << << "Ready to destroy Pendulum stacks" >>,
                                  << "Destroy Info:" >> >>, calls)
           ELSE /\ DestroyCatch(r.message,
                        out \o << << "Failed to connect to AWS" >> >>)
                /\ UNCHANGED << calls, stacksToDestroy, idx >>
    /\ UNCHANGED << cmd, prompts, proceed, confirmDeployment,
                    confirmDestruction, attempts, awsRegion, provisioned,
                    failedStack, adminKey, loadBalancerURL, cloudFrontURL,
                    lookups, lookupResults, others >>

\* The `cdk destroy <stack> --force` child of the current stack settles.
destroyStacksCdk_destroy ==
    /\ pc = "K_destroy"
    /\ \E o \in ChildOutcomes :
        LET r == runCommand(o)
            stack == stacksToDestroy[idx]
        IN
        /\ results' = Append(results, r.ok)
        /\ IF r.ok
           THEN /\ provisioned' = provisioned \ { stack }
                /\ destroyStacksCdk(stacksToDestroy, idx + 1,
                        out \o << << "Successfully destroyed:", stack >> >>,
                        calls)
           ELSE /\ provisioned' = provisioned
                /\ destroyStacksCdk(stacksToDestroy, idx + 1,
                        out \o CouldntDestroy(stack, r.message), calls)
    /\ UNCHANGED << cmd, prompts, proceed, confirmDeployment,
                    confirmDestruction, attempts, awsRegion, stacksToDestroy,
                    failedStack, adminKey, loadBalancerURL, cloudFrontURL,
                    lookups, lookupResults, others >>

DestroyCdkCommand ==
    \/ DestroyCdk_access
    \/ DestroyCdk_listAllStacks
    \/ destroyStacksCdk_destroy

---------------------------------------------------------------------------
(* DestroyCommand, checkStackExists variant (commands/destroy.ts): it asks  *)
(* the same questions, then asks CloudFormation whether one stack exists    *)
(* and, if it does, runs a single `cdk destroy --force` on the whole app.   *)

PendulumDir == "pendulum"
CliDir == "pendulum-cli"

\* The stack name checkStackExists asks CloudFormation about.
PendulumStack == "PendulumStack"

DescribeStacks(stack, region) ==
    Child("aws", << "cloudformation", "describe-stacks", "--stack-name",
                    stack, "--region", region >>, "inherit")

IsDescribeStacks(c) ==
    c.prog = "aws" /\ Len(c.args) >= 4 /\ c.args[2] = "describe-stacks"

CdkDestroyApp == Child("npx", << "cdk", "destroy", "--force" >>, "inherit")

\* The stacks of the account when a run of this variant starts: the ones
\* DeployCommand creates, none, or one that carries the name looked up.
AccountStacksAtStart == { AllStacks, { }, { PendulumStack } }

ProjectNotFoundLines ==
    << << "Pendulum project not found!" >>,
       << "Run 'pendulum init' to set up your project." >> >>

NoStackFoundLines ==
    << << "No pendulum stack found to destroy" >>,
       << "No Pendulum stack found to destroy." >>,
       << "Your AWS account appears to be clean already." >> >>

\* fs.access on the project's pendulum directory settles: the access on
\* the CLI directory follows, or the catch block prints and returns.
DestroyStack_accessProject ==
    /\ pc = "X_access"
    /\ \E found \in BOOLEAN :
        IF found
        THEN /\ fsOps' = Append(fsOps, [op |-> "access", path |-> CliDir])
             /\ out' = out
             /\ pc' = "X_accessCli"
        ELSE /\ fsOps' = fsOps
             /\ out' = out \o ProjectNotFoundLines
             /\ pc' = "done"
    /\ UNCHANGED << cmd, calls, results, prompts, exitCode, proceed,
                    confirmDeployment, confirmDestruction, attempts, awsRegion,
                    stacksToDestroy, idx, provisioned, failedStack, adminKey,
                    loadBalancerURL, cloudFrontURL, lookups, lookupResults,
                    arg, ret, events, packageJson >>

\* fs.access on the CLI directory settles.
DestroyStack_accessCli ==
    /\ pc = "X_accessCli"
    /\ \E found \in BOOLEAN :
        IF found
        THEN /\ out' = out
             /\ prompts' = Append(prompts, "proceed")
             /\ pc' = "D_proceed"
        ELSE /\ out' = out \o ProjectNotFoundLines
             /\ prompts' = prompts
             /\ pc' = "done"
    /\ UNCHANGED << cmd, calls, results, exitCode, proceed, confirmDeployment,
                    confirmDestruction, attempts, awsRegion, stacksToDestroy,
                    idx, provisioned, failedStack, adminKey, loadBalancerURL,
                    cloudFrontURL, lookups, lookupResults, others >>

\* The identity check settles; on success checkStackExists starts its child.
DestroyStack_checkAWSConfiguration ==
    /\ cmd = "destroyStack"
    /\ pc = "D_identity"
    /\ \E o \in ChildOutcomes :
        LET r == checkAWSConfiguration(o) IN
        /\ results' = Append(results, r.ok)
        /\ IF r.ok
           THEN /\ calls' = Append(calls,
                                   DescribeStacks(PendulumStack, awsRegion))
                /\ out' = out \o << << "AWS credentials configured" >> >>
                /\ pc' = "X_describe"
                /\ exitCode' = exitCode
           ELSE /\ DestroyCatch(r.message,
                        out \o << << "AWS credentials not configured" >> >>)
                /\ calls' = calls
    /\ UNCHANGED << cmd, prompts, proceed, confirmDeployment,
                    confirmDestruction, attempts, awsRegion, stacksToDestroy,
                    idx, provisioned, failedStack, adminKey, loadBalancerURL,
                    cloudFrontURL, lookups, lookupResults, others >>

\* describe-stacks settles. CloudFormation answers with exit code 0 only for
\* a stack that exists; checkStackExists turns every failure into `false`
\* and DestroyCommand then returns.
DestroyStack_checkStackExists ==
    /\ pc = "X_describe"
    /\ \E o \in ChildOutcomes :
        LET r == runCommand(o)
            stack == calls[Len(calls)].args[4]
        IN
        /\ r.ok => stack \in provisioned
        /\ results' = Append(results, r.ok)
        /\ IF r.ok
           THEN /\ calls' = Append(calls, CdkDestroyApp)
                /\ out' = out \o << << "Pendulum stack found" >> >>
                /\ pc' = "X_destroy"
           ELSE /\ calls' = calls
                /\ out' = out \o NoStackFoundLines
                /\ pc' = "done"
    /\ UNCHANGED << cmd, prompts, exitCode, proceed, confirmDeployment,
                    confirmDestruction, attempts, awsRegion, stacksToDestroy,
                    idx, provisioned, failedStack, adminKey, loadBalancerURL,
                    cloudFrontURL, lookups, lookupResults, others >>

\* `cdk destroy --force` settles: a success removes the app's stacks, a
\* failure is rethrown by destroyCDKStack into DestroyCommand's catch.
DestroyStack_destroyCDKStack ==
    /\ pc = "X_destroy"
    /\ \E o \in ChildOutcomes :
        LET r == runCommand(o) IN
        /\ results' = Append(results, r.ok)
        /\ IF r.ok
           THEN /\ provisioned' = provisioned \ AllStacks
                /\ out' = out
                       \o << << "Pendulum stack destroyed successfully" >> >>
                       \o DestroySuccessLines
                /\ pc' = "done"
                /\ exitCode' = exitCode
           ELSE /\ provisioned' = provisioned
                /\ DestroyCatch(r.message,
                        out \o << << "Failed to destroy Pendulum stack" >> >>)
    /\ UNCHANGED << cmd, calls, prompts, proceed, confirmDeployment,
                    confirmDestruction, attempts, awsRegion, stacksToDestroy,
                    idx, failedStack, adminKey, loadBalancerURL,
                    cloudFrontURL, lookups, lookupResults, others >>

DestroyStackCommand ==
    \/ DestroyStack_accessProject
    \/ DestroyStack_accessCli
    \/ DestroyStack_checkAWSConfiguration
    \/ DestroyStack_checkStackExists
    \/ DestroyStack_destroyCDKStack

---------------------------------------------------------------------------
(* `pendulum dev`: one `docker compose up` in the project's pendulum        *)
(* directory.                                                               *)

DockerComposeUp ==
    Child("docker", << "compose", "up", "--build", "-d" >>, "inherit")

DevSuccessLines ==
    << << "Pendulum backend successfully started!" >>,
       << "Pendulum backend info:" >> >>

\* `${error}` of an Error: "Error: " and its message.
ErrorToString(message) == << "Error:" >> \o message

\* The child of docker compose settles.
DevCommand ==
    /\ pc = "W_up"
    /\ \E o \in ChildOutcomes :
        LET r == runCommand(o) IN
        /\ results' = Append(results, r.ok)
        /\ IF r.ok
           THEN /\ out' = out \o DevSuccessLines
                /\ exitCode' = exitCode
           ELSE /\ out' = Append(out,
                        << "Error starting the Pendulum backend:" >>
                            \o ErrorToString(r.message))
                /\ exitCode' = 1
    /\ pc' = "done"
    /\ UNCHANGED << cmd, calls, prompts, proceed, confirmDeployment,
                    confirmDestruction, attempts, awsRegion, stacksToDestroy,
                    idx, provisioned, failedStack, adminKey, loadBalancerURL,
                    cloudFrontURL, lookups, lookupResults, others >>

---------------------------------------------------------------------------
(* The earlier revisions of DeployCommand kept in commands/deploy.ts: one   *)
(* that deploys the whole app with a single `cdk deploy`, one that deploys  *)
(* the backend stacks and then the frontend stack, and one that also looks  *)
(* up the admin key and the load balancer URL.  Each checks for the project *)
(* with two fs.access calls before its first prompt, and passes runCommand  *)
(* a working directory and an environment only.  A run of the second       *)
(* revision stays at the frontend's questions: its steps after them are    *)
(* the third revision's, and are written once for both.                    *)

DeployRevisions == { "deploy1", "deploy2", "deploy3" }

\* The two paths a revision looks for, in the order of its awaits.
ProjectPaths(rev) ==
    IF rev = "deploy3" THEN << CliPackageJson, "cli/lib" >>
    ELSE << PendulumDir, CliDir >>

NpmInstallInherit == Child("npm", << "install" >>, "inherit")

CdkBootstrapNoCi ==
    Child("npx", << "cdk", "bootstrap", "aws://account/region" >>, "inherit")

\* deployCDKStack's command: it names no stack.
CdkDeployApp ==
    Child("npx", << "cdk", "deploy", "--require-approval", "never" >>,
          "inherit")

CdkDeployBackendNoCi ==
    Child("npx",
          << "cdk", "deploy" >> \o backendStacks
              \o << "--require-approval", "never", "--outputs-file",
                    "backend-outputs.json" >>,
          "inherit")

CdkDeployFrontendNoCi ==
    Child("npx",
          << "cdk", "deploy", FrontendStack, "--require-approval", "never",
             "--outputs-file", "frontend-outputs.json" >>,
          "inherit")

\* What the third revision prints after its lookups.
DeployRevisionSuccessLines(key, url) ==
    << DeploySuccessLines[1] >>
        \o (IF url # Null THEN << << "Backend API:", url >> >> ELSE << >>)
        \o (IF key # Null THEN << << "Admin Key:", key >> >> ELSE << >>)
        \o << DeploySuccessLines[2] >>
        \o (IF key = Null
            THEN << << "Admin key could not be retrieved automatically." >> >>
            ELSE << >>)

\* The variables no step of these revisions writes.
revisionFrame ==
    << cmd, confirmDestruction, attempts, stacksToDestroy, idx, cloudFrontURL,
       arg, ret, events, packageJson >>

\* fs.access on the first path settles: the access on the second follows,
\* or the catch block prints and returns.
DeployRevision_accessFirst ==
    /\ pc = "Q_access"
    /\ \E found \in BOOLEAN :
        IF found
        THEN /\ fsOps' = Append(fsOps,
                    [op |-> "access", path |-> ProjectPaths(cmd)[2]])
             /\ out' = out
             /\ pc' = "Q_accessSecond"
        ELSE /\ fsOps' = fsOps
             /\ out' = out \o ProjectNotFoundLines
             /\ pc' = "done"
    /\ UNCHANGED << calls, results, prompts, exitCode, proceed,
                    confirmDeployment, awsRegion, provisioned, failedStack,
                    adminKey, loadBalancerURL, lookups, lookupResults >>
    /\ UNCHANGED revisionFrame

\* fs.access on the second path settles.
DeployRevision_accessSecond ==
    /\ pc = "Q_accessSecond"
    /\ \E found \in BOOLEAN :
        IF found
        THEN /\ out' = out
             /\ prompts' = Append(prompts, "proceed")
             /\ pc' = "Q_proceed"
        ELSE /\ out' = out \o ProjectNotFoundLines
             /\ prompts' = prompts
             /\ pc' = "done"
    /\ UNCHANGED << calls, results, exitCode, proceed, confirmDeployment,
                    awsRegion, provisioned, failedStack, adminKey,
                    loadBalancerURL, lookups, lookupResults, fsOps >>
    /\ UNCHANGED revisionFrame

DeployRevision_proceed ==
    /\ pc = "Q_proceed"
    /\ \E answer \in BOOLEAN :
        /\ proceed' = answer
        /\ IF answer
           THEN /\ prompts' = Append(prompts, "getAWSConfiguration")
                /\ pc' = "Q_awsConfig"
                /\ out' = out
           ELSE /\ out' = out \o << << "Deployment cancelled." >> >>
                /\ pc' = "done"
                /\ prompts' = prompts
    /\ UNCHANGED << calls, results, exitCode, confirmDeployment, awsRegion,
                    provisioned, failedStack, adminKey, loadBalancerURL,
                    lookups, lookupResults, fsOps >>
    /\ UNCHANGED revisionFrame

\* The account and region prompt is answered: the first revision asks for
\* the confirmation next, the others for the frontend's configuration.
DeployRevision_getAWSConfiguration ==
    /\ pc = "Q_awsConfig"
    /\ \E region \in Regions : awsRegion' = region
    /\ IF cmd = "deploy1"
       THEN /\ prompts' = Append(prompts, "confirmDeployment")
            /\ pc' = "Q_confirm"
       ELSE /\ prompts' = Append(prompts, "getFrontendConfigration")
            /\ pc' = "Q_frontendConfig"
    /\ UNCHANGED << calls, results, out, exitCode, proceed, confirmDeployment,
                    provisioned, failedStack, adminKey, loadBalancerURL,
                    lookups, lookupResults, fsOps >>
    /\ UNCHANGED revisionFrame

\* Whether existsSync names a function in the revision: the second imports
\* it from "path", which exports none.
existsSyncImported(rev) == rev # "deploy2"

\* The frontend's questions are answered.  The validator of the build path
\* calls existsSync on every input; where that is no function it throws
\* each time, and the prompt never hands over its answers.
DeployRevision_getFrontendConfigration ==
    /\ pc = "Q_frontendConfig"
    /\ existsSyncImported(cmd)
    /\ out' = out \o << << "Deployment Summary:" >>,
                        << "Backend: Pendulum BaaS (4 stacks)" >> >>
    /\ prompts' = Append(prompts, "confirmDeployment")
    /\ pc' = "Q_confirm"
    /\ UNCHANGED << calls, results, exitCode, proceed, confirmDeployment,
                    awsRegion, provisioned, failedStack, adminKey,
                    loadBalancerURL, lookups, lookupResults, fsOps >>
    /\ UNCHANGED revisionFrame

DeployRevision_confirmDeployment ==
    /\ pc = "Q_confirm"
    /\ \E answer \in BOOLEAN :
        /\ confirmDeployment' = answer
        /\ IF answer
           THEN /\ calls' = Append(calls, GetCallerIdentity("inherit"))
                /\ pc' = "Q_identity"
                /\ out' = out
           ELSE /\ out' = out \o << << "Deployment cancelled." >> >>
                /\ pc' = "done"
                /\ calls' = calls
    /\ UNCHANGED << results, prompts, exitCode, proceed, awsRegion,
                    provisioned, failedStack, adminKey, loadBalancerURL,
                    lookups, lookupResults, fsOps >>
    /\ UNCHANGED revisionFrame

DeployRevision_checkAWSConfiguration ==
    /\ pc = "Q_identity"
    /\ \E o \in ChildOutcomes :
        LET r == checkAWSConfiguration(o) IN
        /\ results' = Append(results, r.ok)
        /\ IF r.ok
           THEN /\ calls' = Append(calls, NpmInstallInherit)
                /\ out' = out \o << << "AWS credentials configured" >> >>
                /\ pc' = "Q_install"
                /\ exitCode' = exitCode
           ELSE /\ DeployCatch(r.message,
                        out \o << << "AWS credentials not configured" >> >>)
                /\ calls' = calls
    /\ UNCHANGED << prompts, proceed, confirmDeployment, awsRegion,
                    provisioned, failedStack, adminKey, loadBalancerURL,
                    lookups, lookupResults, fsOps >>
    /\ UNCHANGED revisionFrame

DeployRevision_installCDKDependencies ==
    /\ pc = "Q_install"
    /\ \E o \in ChildOutcomes :
        LET r == runCommand(o) IN
        /\ results' = Append(results, r.ok)
        /\ IF r.ok
           THEN /\ calls' = Append(calls, CdkBootstrapNoCi)
                /\ out' = out \o << << "CDK dependencies installed" >> >>
                /\ pc' = "Q_bootstrap"
                /\ exitCode' = exitCode
           ELSE /\ DeployCatch(r.message,
                        out \o << << "Failed to install CDK dependencies" >> >>)
                /\ calls' = calls
    /\ UNCHANGED << prompts, proceed, confirmDeployment, awsRegion,
                    provisioned, failedStack, adminKey, loadBalancerURL,
                    lookups, lookupResults, fsOps >>
    /\ UNCHANGED revisionFrame

\* bootstrapCDK swallows a failure; the first revision then deploys the app,
\* the others the backend stacks.
DeployRevision_bootstrapCDK ==
    /\ pc = "Q_bootstrap"
    /\ \E o \in ChildOutcomes :
        LET r == runCommand(o) IN
        /\ results' = Append(results, r.ok)
        /\ out' = out \o << << IF r.ok
                               THEN "AWS CDK environment bootstrapped"
                               ELSE "CDK bootstrap may have already been completed or failed" >> >>
    /\ IF cmd = "deploy1"
       THEN /\ calls' = Append(calls, CdkDeployApp)
            /\ pc' = "Q_deploy"
       ELSE /\ calls' = Append(calls, CdkDeployBackendNoCi)
            /\ pc' = "Q_backend"
    /\ UNCHANGED << prompts, exitCode, proceed, confirmDeployment, awsRegion,
                    provisioned, failedStack, adminKey, loadBalancerURL,
                    lookups, lookupResults, fsOps >>
    /\ UNCHANGED revisionFrame

\* deployCDKStack: the child of `cdk deploy` settles.  Given no stack name,
\* the toolkit deploys the app's stacks in their declared order.
deployCDKStack ==
    /\ pc = "Q_deploy"
    /\ \E o \in ChildOutcomes, k \in 0..Len(DeclaredStacks) :
        LET r == runCommand(o) IN
        /\ (r.ok \/ o.ev = "error") => k = 0
        /\ CdkDeployEffect(o, DeclaredStacks, k)
        /\ results' = Append(results, r.ok)
        /\ IF r.ok
           THEN /\ out' = out
                    \o << << "Pendulum stacked deployed successfully" >> >>
                    \o DeploySuccessLines
                /\ pc' = "done"
                /\ exitCode' = exitCode
           ELSE DeployCatch(r.message,
                    out \o << << "Failed to deploy Pendulum stack" >> >>)
    /\ UNCHANGED << calls, prompts, proceed, confirmDeployment, awsRegion,
                    adminKey, loadBalancerURL, lookups, lookupResults, fsOps >>
    /\ UNCHANGED revisionFrame

DeployRevision_deployBackendStacks ==
    /\ pc = "Q_backend"
    /\ \E o \in ChildOutcomes, k \in 0..Len(backendStacks) :
        LET r == runCommand(o) IN
        /\ (r.ok \/ o.ev = "error") => k = 0
        /\ CdkDeployEffect(o, StacksNamed(calls[Len(calls)]), k)
        /\ results' = Append(results, r.ok)
        /\ IF r.ok
           THEN /\ calls' = Append(calls, CdkDeployFrontendNoCi)
                /\ out' = out \o << << "Pendulum backend stacks deployed successfully" >> >>
                /\ pc' = "Q_frontend"
                /\ exitCode' = exitCode
           ELSE /\ DeployCatch(r.message,
                        out \o << << "Failed to deploy Pendulum backend stacks" >> >>)
                /\ calls' = calls
    /\ UNCHANGED << prompts, proceed, confirmDeployment, awsRegion, adminKey,
                    loadBalancerURL, lookups, lookupResults, fsOps >>
    /\ UNCHANGED revisionFrame

\* The frontend's child settles: the second revision's code prints its
\* success message here, the third starts its lookups.
DeployRevision_deployFrontendStack ==
    /\ pc = "Q_frontend"
    /\ \E o \in ChildOutcomes, k \in 0..1 :
        LET r == runCommand(o) IN
        /\ (r.ok \/ o.ev = "error") => k = 0
        /\ CdkDeployEffect(o, StacksNamed(calls[Len(calls)]), k)
        /\ results' = Append(results, r.ok)
        /\ IF ~r.ok
           THEN /\ DeployCatch(r.message,
                        out \o << << "Failed to deploy frontend stack" >> >>)
                /\ lookups' = lookups
           ELSE IF cmd = "deploy2"
           THEN /\ out' = out
                    \o << << "Frontend stack deployed successfully" >> >>
                    \o DeploySuccessLines
                /\ lookups' = lookups
                /\ pc' = "done"
                /\ exitCode' = exitCode
           ELSE /\ out' = out \o << << "Frontend stack deployed successfully" >> >>
                /\ lookups' = Append(lookups, "getAdminApiKey")
                /\ pc' = "Q_adminKey"
                /\ exitCode' = exitCode
    /\ UNCHANGED << calls, prompts, proceed, confirmDeployment, awsRegion,
                    adminKey, loadBalancerURL, lookupResults, fsOps >>
    /\ UNCHANGED revisionFrame

\* The third revision's getAdminApiKey returns: the key it hands over
\* carries the prefix "ak_".
DeployRevision_getAdminApiKey(l, lines) ==
    /\ lookupResults' = Append(lookupResults, l)
    /\ adminKey' = Lookup(l, "ak_admin-key")
    /\ out' = out \o lines
    /\ lookups' = Append(lookups, "getLoadBalancerURL")
    /\ pc' = "Q_loadBalancerURL"

DeployRevision_listExports ==
    /\ pc = "Q_adminKey"
    /\ \E l \in ListExportsOutcomes :
        CASE l = "found" ->
                /\ pc' = "Q_secretValue"
                /\ UNCHANGED << lookupResults, adminKey, out, lookups >>
          [] l = "absent" ->
                DeployRevision_getAdminApiKey("absent",
                    << << "Could not find admin API key ARN in CloudFormation exports" >> >>)
          [] l = "error" ->
                DeployRevision_getAdminApiKey("error", AdminKeyCatchLines)
    /\ UNCHANGED << calls, results, prompts, exitCode, proceed,
                    confirmDeployment, awsRegion, provisioned, failedStack,
                    loadBalancerURL, fsOps >>
    /\ UNCHANGED revisionFrame

DeployRevision_getSecretValue ==
    /\ pc = "Q_secretValue"
    /\ \E l \in SecretValueOutcomes :
        CASE l = "found" ->
                DeployRevision_getAdminApiKey("found",
                    << << "Admin API key retrieved" >> >>)
          [] l = "noSecretString" ->
                DeployRevision_getAdminApiKey("absent",
                    << << "Admin API key secret has no value" >> >>)
          [] l = "noAdminKey" ->
                DeployRevision_getAdminApiKey("absent",
                    << << "Admin key not found in secret" >> >>)
          [] l \in { "invalidJson", "error" } ->
                DeployRevision_getAdminApiKey("error", AdminKeyCatchLines)
    /\ UNCHANGED << calls, results, prompts, exitCode, proceed,
                    confirmDeployment, awsRegion, provisioned, failedStack,
                    loadBalancerURL, fsOps >>
    /\ UNCHANGED revisionFrame

\* The last lookup of the third revision; its success message follows.
DeployRevision_getLoadBalancerURL ==
    /\ pc = "Q_loadBalancerURL"
    /\ \E l \in LookupOutcomes :
        LET url == Lookup(l, "LoadBalancerURL") IN
        /\ lookupResults' = Append(lookupResults, l)
        /\ loadBalancerURL' = url
        /\ out' = (IF l = "error"
                   THEN out \o << << "Could not retrieve load balancer URL" >> >>
                   ELSE out) \o DeployRevisionSuccessLines(adminKey, url)
    /\ pc' = "done"
    /\ UNCHANGED << calls, results, prompts, exitCode, proceed,
                    confirmDeployment, awsRegion, provisioned, failedStack,
                    adminKey, lookups, fsOps >>
    /\ UNCHANGED revisionFrame

DeployRevisionCommand ==
    \/ DeployRevision_accessFirst
    \/ DeployRevision_accessSecond
    \/ DeployRevision_proceed
    \/ DeployRevision_getAWSConfiguration
    \/ DeployRevision_getFrontendConfigration
    \/ DeployRevision_confirmDeployment
    \/ DeployRevision_checkAWSConfiguration
    \/ DeployRevision_installCDKDependencies
    \/ DeployRevision_bootstrapCDK
    \/ deployCDKStack
    \/ DeployRevision_deployBackendStacks
    \/ DeployRevision_deployFrontendStack
    \/ DeployRevision_listExports
    \/ DeployRevision_getSecretValue
    \/ DeployRevision_getLoadBalancerURL

---------------------------------------------------------------------------
(* runCommand and checkAWSConfiguration called on their own: the call, its *)
(* spawn, and the events the child emits afterwards.                        *)

\* The variables of the command flows, which these runs leave alone.
flowVars ==
    << prompts, out, exitCode, proceed, confirmDeployment, confirmDestruction,
       attempts, awsRegion, stacksToDestroy, idx, provisioned, failedStack,
       adminKey, loadBalancerURL, cloudFrontURL, lookups, lookupResults >>

\* The shell's exit code for a command it cannot find.
CommandNotFound == 127

RunExitCodes == ExitCodes \cup { 2, CommandNotFound }

ChildErrors ==
    { << "spawn", "ENOENT" >>, << "ENOENT:", "command", "not", "found" >> }

\* The events the child of one runCommand call can emit.
RunEvents ==
    { [ev |-> "close", code |-> c, err |-> << >>] :
        c \in RunExitCodes \cup { NullExitCode } }
        \cup { [ev |-> "error", code |-> 0, err |-> e] : e \in ChildErrors }

\* The options objects a caller passes: none, cwd only, stdio only, both.
NoOptions == << >>

CallerOptions ==
    { NoOptions,
      [cwd |-> "/test/path"],
      [stdio |-> "pipe"],
      [cwd |-> "/test/path", stdio |-> "pipe"] }

\* The object runCommand hands to spawn: { stdio: "inherit", ...options }.
SpawnOptions(options) ==
    [k \in { "stdio" } \cup DOMAIN options |->
        IF k \in DOMAIN options THEN options[k] ELSE "inherit"]

\* spawn(command, args, { stdio: "inherit", ...options }).
Spawn(command, args, options) ==
    [prog |-> command, args |-> args, stdio |-> SpawnOptions(options).stdio,
     options |-> SpawnOptions(options)]

\* The calls of runCommand made on its own.
RunCommandCalls ==
    { [command |-> c[1], args |-> c[2], options |-> o] :
        c \in { << "echo", << "hello" >> >>, << "nonexistent-cmd", << >> >> },
        o \in CallerOptions }

\* A promise: pending, or settled for good.
Pending == [state |-> "pending", reason |-> << >>]

\* A promise that every call of resolve or reject settles anew.
SettleAgain(promise, r) ==
    [state |-> IF r.ok THEN "fulfilled" ELSE "rejected", reason |-> r.message]

Settle(promise, r) ==
    IF promise.state = "pending"
    THEN [state |-> IF r.ok THEN "fulfilled" ELSE "rejected",
          reason |-> r.message]
    ELSE promise

\* runCommand is called: the promise is created and the child is spawned.
runCommand_spawn ==
    /\ cmd = "runCommand"
    /\ pc = "R_call"
    /\ calls' = Append(calls, Spawn(arg.command, arg.args, arg.options))
    /\ ret' = Pending
    /\ pc' = "R_child"
    /\ UNCHANGED << cmd, results, arg, events, fsOps, packageJson >>
    /\ UNCHANGED flowVars

\* The child emits an event; handler is the kind of event a listener is
\* registered for.
runCommand_on(handler) ==
    /\ cmd = "runCommand"
    /\ pc = "R_child"
    /\ Len(events) < MaxEvents
    /\ \E e \in RunEvents :
        /\ e.ev = handler
        /\ events' = Append(events, e)
        /\ ret' = Settle(ret, runCommand(e))
    /\ UNCHANGED << cmd, pc, calls, results, arg, fsOps, packageJson >>
    /\ UNCHANGED flowVars

\* proc.on("close", ...)
runCommand_onClose == runCommand_on("close")

\* proc.on("error", reject)
runCommand_onError == runCommand_on("error")

\* The options checkAWSConfiguration passes: { cwd: process.cwd() }.
CheckAWSOptions == [cwd |-> "process.cwd()"]

\* checkAWSConfiguration is called and starts its one command.
checkAWSConfiguration_call ==
    /\ cmd = "checkAWSConfiguration"
    /\ pc = "A_call"
    /\ calls' = Append(calls, Spawn("aws", << "sts", "get-caller-identity" >>,
                                    CheckAWSOptions))
    /\ ret' = Pending
    /\ pc' = "A_child"
    /\ UNCHANGED << cmd, results, arg, events, fsOps, packageJson >>
    /\ UNCHANGED flowVars

\* The child of checkAWSConfiguration's runCommand settles that promise, and
\* the try/catch around the await settles checkAWSConfiguration's own.
checkAWSConfiguration_settle ==
    /\ cmd = "checkAWSConfiguration"
    /\ pc = "A_child"
    /\ \E e \in RunEvents :
        /\ events' = Append(events, e)
        /\ results' = Append(results, runCommand(e).ok)
        /\ ret' = Settle(ret, checkAWSConfiguration(e))
        /\ out' = out \o << << IF runCommand(e).ok
                               THEN "AWS credentials configured"
                               ELSE "AWS credentials not configured" >> >>
    /\ pc' = "done"
    /\ UNCHANGED << cmd, calls, arg, fsOps, packageJson, prompts, exitCode,
                    proceed, confirmDeployment, confirmDestruction, attempts,
                    awsRegion, stacksToDestroy, idx, provisioned, failedStack,
                    adminKey, loadBalancerURL, cloudFrontURL, lookups,
                    lookupResults >>

Utilities ==
    \/ runCommand_spawn
    \/ checkAWSConfiguration_call
    \/ runCommand_onClose
    \/ runCommand_onError
    \/ checkAWSConfiguration_settle

---------------------------------------------------------------------------
(* getAWSConfiguration: the validator of the account ID prompt. *)

Digits == { "0", "1", "2", "3", "4", "5", "6", "7", "8", "9" }

\* The length the validator's pattern asks for.
AccountIdLength == 12

\* /^\d{12}$/.test(t)
IsAccountIdPattern(t) ==
    Len(t) = AccountIdLength /\ \A k \in 1..Len(t) : t[k] \in Digits

AccountIdRequired == << "AWS Account ID is required" >>
AccountIdTwelveDigits == << "AWS Account ID must be exactly 12 digits" >>

\* A validator that tests the pattern on the input as typed.
validateAccountIdUntrimmed(input) ==
    IF input = << >> \/ Len(Trim(input)) = 0
    THEN Rejected(AccountIdRequired)
    ELSE IF ~IsAccountIdPattern(input)
         THEN Rejected(AccountIdTwelveDigits)
         ELSE Resolved

\* The validate function of the awsAccountId prompt.
validateAccountId(input) ==
    IF input = << >> \/ Len(Trim(input)) = 0
    THEN Rejected(AccountIdRequired)
    ELSE IF ~IsAccountIdPattern(Trim(input))
         THEN Rejected(AccountIdTwelveDigits)
         ELSE Resolved

\* What the operator types: a body, with or without blanks around it.
AccountIdBodies ==
    { << >>,
      << "1", "2", "3", "4", "5", "6", "7", "8", "9", "0", "1", "2" >>,
      << "1", "2", "3", "4", "5" >>,
      << "1", "2", "3", "4", "5", "6", "7", "8", "9", "0", "1" >>,
      << "1", "2", "3", "4", "5", "6", "7", "8", "9", "0", "1", "2", "3" >>,
      << "a", "b", "c", "d", "1", "2", "3", "4", "5", "6", "7", "8" >>,
      << "1", "2", "3", "-", "4", "5", "6", "-", "7", "8", "9", "-",
         "0", "1", "2" >>,
      << "1", "2", "3", "4", "5", "6", " ", "7", "8", "9", "0", "1", "2" >>,
      << "1", "2", "3", "4", "5", " ", "6", "7", "8", "9", "0", "1" >> }

AccountIdPads ==
    { << >>, << " " >>, << " ", " " >>, << "\t" >>, << "\n" >>, << "\r" >>,
      << "U+00A0" >> }

AccountIdInputs ==
    { l \o b \o r : l \in AccountIdPads, b \in AccountIdBodies,
                    r \in AccountIdPads }

\* inquirer hands the typed input to validate.
getAWSConfiguration_validate ==
    /\ cmd = "validateAccountId"
    /\ pc = "V_call"
    /\ ret' = validateAccountId(arg)
    /\ pc' = "done"
    /\ UNCHANGED << cmd, calls, results, arg, events, fsOps, packageJson >>
    /\ UNCHANGED flowVars

---------------------------------------------------------------------------
(* `pendulum init`: install the two packages, then add the npm scripts to   *)
(* the project's package.json.                                              *)

\* A JSON value: a string, an object of strings, null, or the array [].
NoEntries == [k \in { } |-> ""]
JString(t) == [kind |-> "string", text |-> t, entries |-> NoEntries]
JObject(f) == [kind |-> "object", text |-> "", entries |-> f]
JNull == [kind |-> "null", text |-> "", entries |-> NoEntries]
JArray == [kind |-> "array", text |-> "", entries |-> NoEntries]

\* JavaScript's truthiness of a JSON value.
Truthy(v) ==
    v.kind \in { "object", "array" } \/ (v.kind = "string" /\ v.text # "")

\* f with key k set to v.
With(f, k, v) == [x \in DOMAIN f \cup { k } |-> IF x = k THEN v ELSE f[x]]

\* A file: absent, text that is not JSON, or the text of a JSON object
\* printed with some indentation.
MissingFile ==
    [exists |-> FALSE, valid |-> FALSE, indent |-> 0, obj |-> NoEntries]
InvalidFile ==
    [exists |-> TRUE, valid |-> FALSE, indent |-> 0, obj |-> NoEntries]
JsonFile(obj, indent) ==
    [exists |-> TRUE, valid |-> TRUE, indent |-> indent, obj |-> obj]

\* JSON.stringify(obj, null, 2) indents by two.
StringifyIndent == 2

ProjectPackageJson == "package.json"
SdkPackage == "@pendulum/sdk"
CorePackage == "@pendulum/core"
StartScript == "pendulum-backend:start"
StopScript == "pendulum-backend:stop"
StartCommand == "cd node_modules/@pendulum/core && docker compose start"
StopCommand == "cd node_modules/@pendulum/core && docker compose stop"

\* The scripts entries a project may come with.
ScriptsValues ==
    { JObject(NoEntries),
      JObject([test |-> "jest"]),
      JObject(With([build |-> "tsc"], StartScript, "old start")),
      JNull,
      JArray,
      JString("scripts") }

\* The package.json a project may have when `pendulum init` starts.
PackageJsonFiles ==
    { MissingFile, InvalidFile,
      JsonFile([name |-> JString("my-app")], 2),
      JsonFile([name |-> JString("my-app")], 4) }
        \cup { JsonFile([name |-> JString("my-app"), scripts |-> v], 2) :
                 v \in ScriptsValues }
        \cup { JsonFile([scripts |-> JObject([test |-> "jest"]),
                         version |-> JString("1.0.0")], 4) }

\* What a successful `npm install <pkg>` does to a package.json it can
\* parse: it records the package under dependencies.
NpmInstalled(file, pkg) ==
    IF file.exists /\ file.valid
    THEN LET deps == IF "dependencies" \in DOMAIN file.obj
                     THEN file.obj["dependencies"].entries
                     ELSE NoEntries
         IN JsonFile(With(file.obj, "dependencies",
                          JObject(With(deps, pkg, "latest"))), file.indent)
    ELSE file

InitInstall(pkg) ==
    Spawn("npm", << "install", pkg >>, [cwd |-> "process.cwd()"])

\* An update that installs a scripts object holding the two scripts only.
addNpmScriptsFresh(obj) ==
    [ok |-> TRUE, message |-> << >>,
     obj |-> With(obj, "scripts",
                JObject(With(With(NoEntries, StartScript, StartCommand),
                             StopScript, StopCommand)))]

\* The body of addNpmScripts between JSON.parse and writeFile, on the parsed
\* object: the object to serialise, or the TypeError of an assignment to a
\* property of a primitive.
addNpmScripts(obj) ==
    LET scripts == IF "scripts" \in DOMAIN obj /\ Truthy(obj["scripts"])
                   THEN obj["scripts"]
                   ELSE JObject(NoEntries)
    IN
    CASE scripts.kind = "object" ->
            [ok |-> TRUE, message |-> << >>,
             obj |-> With(obj, "scripts",
                        JObject(With(With(scripts.entries,
                                          StartScript, StartCommand),
                                     StopScript, StopCommand)))]
      [] scripts.kind = "array" ->
            [ok |-> TRUE, message |-> << >>, obj |-> obj]
      [] OTHER ->
            [ok |-> FALSE,
             message |-> << "TypeError:", "Cannot create property",
                            StartScript >>,
             obj |-> obj]

InitSuccessLines ==
    << << "Pendulum backend setup complete!" >>, << "Next steps:" >> >>

\* The catch block of InitCommand.
InitCatch(error, lines) ==
    /\ out' = lines \o << << "Failed to initialize project:" >> \o error >>
    /\ exitCode' = 1
    /\ pc' = "done"

\* The variables InitCommand never touches.
initFrame ==
    << cmd, arg, ret, events, prompts, confirmDeployment, confirmDestruction,
       attempts, awsRegion, stacksToDestroy, idx, provisioned, failedStack,
       adminKey, loadBalancerURL, cloudFrontURL, lookups, lookupResults >>

\* A confirm prompt whose answer is recorded and not acted upon.
InitCommand_proceedIgnored ==
    /\ pc = "I_proceed"
    /\ \E answer \in BOOLEAN : proceed' = answer
    /\ calls' = Append(calls, InitInstall(SdkPackage))
    /\ pc' = "I_sdk"
    /\ UNCHANGED << out, results, exitCode, fsOps, packageJson >>
    /\ UNCHANGED initFrame

InitCommand_proceed ==
    /\ pc = "I_proceed"
    /\ \E answer \in BOOLEAN :
        /\ proceed' = answer
        /\ IF answer
           THEN /\ calls' = Append(calls, InitInstall(SdkPackage))
                /\ out' = out
                /\ pc' = "I_sdk"
           ELSE /\ calls' = calls
                /\ out' = out \o << << "Setup cancelled." >> >>
                /\ pc' = "done"
    /\ UNCHANGED << results, exitCode, fsOps, packageJson >>
    /\ UNCHANGED initFrame

\* An SDK install whose failure is not noticed: the core install follows.
installPendulumDependencies_sdkUnchecked ==
    /\ pc = "I_sdk"
    /\ \E o \in ChildOutcomes :
        LET r == runCommand(o) IN
        /\ results' = Append(results, r.ok)
        /\ packageJson' = IF r.ok
                          THEN NpmInstalled(packageJson, SdkPackage)
                          ELSE packageJson
    /\ calls' = Append(calls, InitInstall(CorePackage))
    /\ pc' = "I_core"
    /\ UNCHANGED << out, exitCode, proceed, fsOps >>
    /\ UNCHANGED initFrame

\* The child of `npm install @pendulum/sdk` settles.
installPendulumDependencies_sdk ==
    /\ pc = "I_sdk"
    /\ \E o \in ChildOutcomes :
        LET r == runCommand(o) IN
        /\ results' = Append(results, r.ok)
        /\ IF r.ok
           THEN /\ packageJson' = NpmInstalled(packageJson, SdkPackage)
                /\ calls' = Append(calls, InitInstall(CorePackage))
                /\ pc' = "I_core"
                /\ UNCHANGED << out, exitCode >>
           ELSE /\ InitCatch(r.message,
                    out \o << << "Failed to install Pendulum dependencies" >> >>)
                /\ UNCHANGED << calls, packageJson >>
    /\ UNCHANGED << proceed, fsOps >>
    /\ UNCHANGED initFrame

\* The child of `npm install @pendulum/core` settles; on success
\* addNpmScripts starts to read package.json.
installPendulumDependencies_core ==
    /\ pc = "I_core"
    /\ \E o \in ChildOutcomes :
        LET r == runCommand(o) IN
        /\ results' = Append(results, r.ok)
        /\ IF r.ok
           THEN /\ packageJson' = NpmInstalled(packageJson, CorePackage)
                /\ fsOps' = Append(fsOps,
                        [op |-> "readFile", path |-> ProjectPackageJson,
                         data |-> MissingFile, status |-> "pending"])
                /\ out' = out \o
                     << << "Pendulum dependencies installed successfully" >> >>
                /\ pc' = "I_read"
                /\ exitCode' = exitCode
           ELSE /\ InitCatch(r.message,
                    out \o << << "Failed to install Pendulum dependencies" >> >>)
                /\ UNCHANGED << fsOps, packageJson >>
    /\ UNCHANGED << proceed, calls >>
    /\ UNCHANGED initFrame

\* The last fs operation, settled.
FsSettled(status) ==
    [fsOps EXCEPT ![Len(fsOps)] = [@ EXCEPT !.status = status]]

\* readFile settles: it fails (always, when there is no file), or it hands
\* over the text, which is parsed, updated, serialised and given to
\* writeFile.
addNpmScripts_readFile ==
    /\ pc = "I_read"
    /\ \E readOk \in { TRUE, FALSE } :
        /\ readOk => packageJson.exists
        /\ IF ~readOk
           THEN /\ fsOps' = FsSettled("failed")
                /\ InitCatch(<< "ENOENT" >>, out)
           ELSE IF ~packageJson.valid
           THEN /\ fsOps' = FsSettled("ok")
                /\ InitCatch(<< "SyntaxError" >>, out)
           ELSE LET r == addNpmScripts(packageJson.obj) IN
                IF ~r.ok
                THEN /\ fsOps' = FsSettled("ok")
                     /\ InitCatch(r.message, out)
                ELSE /\ fsOps' = Append(FsSettled("ok"),
                            [op |-> "writeFile", path |-> ProjectPackageJson,
                             data |-> JsonFile(r.obj, StringifyIndent),
                             status |-> "pending"])
                     /\ pc' = "I_write"
                     /\ UNCHANGED << out, exitCode >>
    /\ UNCHANGED << proceed, calls, results, packageJson >>
    /\ UNCHANGED initFrame

\* writeFile settles: the file holds the new text, or the write failed and
\* left the file as it was or cut short.
addNpmScripts_writeFile ==
    /\ pc = "I_write"
    /\ \/ /\ packageJson' = fsOps[Len(fsOps)].data
          /\ fsOps' = FsSettled("ok")
          /\ out' = out \o InitSuccessLines
          /\ pc' = "done"
          /\ exitCode' = exitCode
       \/ /\ packageJson' \in { packageJson, InvalidFile }
          /\ fsOps' = FsSettled("failed")
          /\ InitCatch(<< "EACCES" >>, out)
    /\ UNCHANGED << proceed, calls, results >>
    /\ UNCHANGED initFrame

InitCommand ==
    \/ InitCommand_proceed
    \/ installPendulumDependencies_sdk
    \/ installPendulumDependencies_core
    \/ addNpmScripts_readFile
    \/ addNpmScripts_writeFile

---------------------------------------------------------------------------
(* `pendulum dev`, the two revisions that run the backend installed under  *)
(* node_modules: they copy the project's .env next to the backend first.   *)

\* The directory of the installed backend: the scope of the package is
\* @pendulum in one revision and @pendulum-baas in the other.
CorePackagePath(rev) ==
    << "process.cwd()", "node_modules",
       IF rev = "devBaas" THEN "@pendulum-baas" ELSE "@pendulum", "core" >>

DockerComposeUpCore(rev) ==
    Spawn("docker", << "compose", "up", "--build", "-d" >>,
          [cwd |-> CorePackagePath(rev)])

\* The lines one revision logs on its way to the await: the four paths
\* before the try block, "test1" inside it, "test2" when there is a .env.
\* The other revision logs nothing.
DevCorePathLines(rev, env) ==
    IF rev = "devBaas" THEN << >>
    ELSE << << "process.cwd()" >>, << "process.cwd()", ".env" >>,
            CorePackagePath(rev), CorePackagePath(rev) \o << ".env" >>,
            << "test1" >> >>
            \o (IF env THEN << << "test2" >> >> ELSE << >>)

devFrame ==
    << cmd, arg, ret, events, packageJson, prompts, proceed, confirmDeployment,
       confirmDestruction, attempts, awsRegion, stacksToDestroy, idx,
       provisioned, failedStack, adminKey, loadBalancerURL, cloudFrontURL,
       lookups, lookupResults >>

\* DevCommand up to its await: existsSync, copyFileSync when there is a
\* .env (arg), and the spawn of docker compose; copyFileSync may throw.
DevCommand_copyEnv ==
    /\ pc = "W_env"
    /\ \E copied \in BOOLEAN :
        /\ ~arg => copied
        /\ fsOps' = IF arg
                    THEN Append(fsOps,
                            [op |-> "copyFile",
                             path |-> << "process.cwd()", ".env" >>,
                             data |-> MissingFile,
                             status |-> IF copied THEN "ok" ELSE "failed"])
                    ELSE fsOps
        /\ IF copied
           THEN /\ out' = out \o DevCorePathLines(cmd, arg)
                /\ calls' = Append(calls, DockerComposeUpCore(cmd))
                /\ pc' = "W_coreUp"
                /\ exitCode' = exitCode
           ELSE /\ out' = out \o DevCorePathLines(cmd, arg)
                              \o << << "Error starting the Pendulum backend:" >>
                                        \o ErrorToString(<< "ENOENT" >>) >>
                /\ calls' = calls
                /\ pc' = "done"
                /\ exitCode' = 1
    /\ UNCHANGED results
    /\ UNCHANGED devFrame

\* The child of docker compose settles.
DevCommand_composeUp ==
    /\ pc = "W_coreUp"
    /\ \E o \in ChildOutcomes :
        LET r == runCommand(o) IN
        /\ results' = Append(results, r.ok)
        /\ IF r.ok
           THEN /\ out' = out \o DevSuccessLines \o
                     << << "View your admin dashboard at http://localhost:3000/admin" >> >>
                /\ exitCode' = exitCode
           ELSE /\ out' = Append(out,
                        << "Error starting the Pendulum backend:" >>
                            \o ErrorToString(r.message))
                /\ exitCode' = 1
    /\ pc' = "done"
    /\ UNCHANGED << calls, fsOps >>
    /\ UNCHANGED devFrame

---------------------------------------------------------------------------
(* The earlier revisions of InitCommand: one that clones the backend's      *)
(* repository (commands/init.ts), and one that creates a project directory *)
(* holding a package.json.                                                  *)

GitClone ==
    Spawn("git",
          << "clone", "https://github.com/Pendulum-BaaS/pendulum.git" >>,
          [cwd |-> "process.cwd()"])

InitClone_proceed ==
    /\ pc = "G_proceed"
    /\ \E answer \in BOOLEAN :
        /\ proceed' = answer
        /\ IF answer
           THEN /\ calls' = Append(calls, GitClone)
                /\ out' = out
                /\ pc' = "G_clone"
           ELSE /\ calls' = calls
                /\ out' = out \o << << "Setup cancelled." >> >>
                /\ pc' = "done"
    /\ UNCHANGED << results, exitCode, fsOps, packageJson >>
    /\ UNCHANGED initFrame

\* The child of git clone settles.
addPendulumBackend ==
    /\ pc = "G_clone"
    /\ \E o \in ChildOutcomes :
        LET r == runCommand(o) IN
        /\ results' = Append(results, r.ok)
        /\ IF r.ok
           THEN /\ out' = out \o << << "Pendulum backend cloned" >> >>
                               \o InitSuccessLines
                /\ pc' = "done"
                /\ exitCode' = exitCode
           ELSE InitCatch(r.message,
                    out \o << << "Failed to clone Pendulum backend" >> >>)
    /\ UNCHANGED << proceed, calls, fsOps, packageJson >>
    /\ UNCHANGED initFrame

\* The values of the choices of the template list.
Templates == { "react-js", "react-ts", "vanilla" }

\* The package.json the template revision writes.
TemplatePackageJson(name) ==
    [name |-> JString(name),
     version |-> JString("1.0.0"),
     scripts |-> JObject([dev |-> "pendulum dev", deploy |-> "pendulum deploy"]),
     dependencies |-> JObject(With(NoEntries, SdkPackage, "^1.0.0"))]

\* The catch block of the template revision.
InitTemplateCatch(error, lines) ==
    /\ out' = lines \o << << "Failed to create project:" >> \o error >>
    /\ exitCode' = 1
    /\ pc' = "done"

templateFrame ==
    << cmd, arg, events, calls, results, prompts, proceed, confirmDeployment,
       confirmDestruction, attempts, awsRegion, stacksToDestroy, idx,
       provisioned, failedStack, adminKey, loadBalancerURL, cloudFrontURL,
       lookups, lookupResults >>

\* The two questions are answered; mkdir is called.
InitTemplate_answers ==
    /\ pc = "T_answers"
    /\ \E name \in { "my-app" }, template \in Templates :
        /\ ret' = [projectName |-> name, template |-> template]
        /\ fsOps' = Append(fsOps,
                [op |-> "mkdir", path |-> << name >>, data |-> MissingFile,
                 status |-> "pending"])
    /\ pc' = "T_mkdir"
    /\ UNCHANGED << out, exitCode, packageJson >>
    /\ UNCHANGED templateFrame

\* mkdir settles: writeFile is called with the serialised object, or the
\* catch block runs.
InitTemplate_mkdir ==
    /\ pc = "T_mkdir"
    /\ \/ /\ fsOps' = Append(FsSettled("ok"),
                [op |-> "writeFile",
                 path |-> << ret.projectName, ProjectPackageJson >>,
                 data |-> JsonFile(TemplatePackageJson(ret.projectName),
                                   StringifyIndent),
                 status |-> "pending"])
          /\ pc' = "T_write"
          /\ UNCHANGED << out, exitCode >>
       \/ /\ fsOps' = FsSettled("failed")
          /\ InitTemplateCatch(<< "EACCES" >>, out)
    /\ UNCHANGED << ret, packageJson >>
    /\ UNCHANGED templateFrame

\* writeFile settles.
InitTemplate_writeFile ==
    /\ pc = "T_write"
    /\ \/ /\ packageJson' = fsOps[Len(fsOps)].data
          /\ fsOps' = FsSettled("ok")
          /\ out' = out \o << << "Created", ret.projectName >>,
                              << "Next steps:" >> >>
          /\ pc' = "done"
          /\ exitCode' = exitCode
       \/ /\ packageJson' \in { packageJson, InvalidFile }
          /\ fsOps' = FsSettled("failed")
          /\ InitTemplateCatch(<< "EACCES" >>, out)
    /\ UNCHANGED ret
    /\ UNCHANGED templateFrame

---------------------------------------------------------------------------
(* getAWSConfiguration called on its own: the account ID is typed until the *)
(* validator accepts it, then a region is selected from the list.           *)

\* The operator submits an account ID: inquirer shows the validator's
\* message and keeps the question open, or moves on to the region list.
getAWSConfiguration_awsAccountId ==
    /\ cmd = "getAWSConfiguration"
    /\ pc = "N_accountId"
    /\ \E input \in AccountIdInputs :
        LET v == validateAccountId(input) IN
        IF v.ok
        THEN /\ arg' = input
             /\ prompts' = Append(prompts, "awsRegion")
             /\ pc' = "N_region"
             /\ out' = out
        ELSE /\ out' = << v.message >>
             /\ UNCHANGED << arg, prompts, pc >>
    /\ UNCHANGED << cmd, calls, results, exitCode, proceed, confirmDeployment,
                    confirmDestruction, attempts, awsRegion, stacksToDestroy,
                    idx, provisioned, failedStack, adminKey, loadBalancerURL,
                    cloudFrontURL, lookups, lookupResults, ret, events, fsOps,
                    packageJson >>

\* The operator selects one of the list's choices; the answers are returned.
getAWSConfiguration_awsRegion ==
    /\ cmd = "getAWSConfiguration"
    /\ pc = "N_region"
    /\ \E region \in Range(RegionChoices) :
        ret' = [awsAccountId |-> arg, awsRegion |-> region]
    /\ pc' = "done"
    /\ UNCHANGED << cmd, calls, results, prompts, out, exitCode, proceed,
                    confirmDeployment, confirmDestruction, attempts, awsRegion,
                    stacksToDestroy, idx, provisioned, failedStack, adminKey,
                    loadBalancerURL, cloudFrontURL, lookups, lookupResults,
                    arg, events, fsOps, packageJson >>

---------------------------------------------------------------------------
(* The operator starts one command; the state is the command suspended at  *)
(* its first await.                                                        *)

\* What the backend holds when a destroy run starts: the deployed stacks,
\* or nothing, as after an earlier teardown.
ProvisionedAtStart == { AllStacks, { } }

Commands ==
    { "dev", "devCore", "devBaas", "deploy", "deploy1", "deploy2", "deploy3",
      "destroy", "destroyCdk", "destroyStack", "runCommand",
      "checkAWSConfiguration", "validateAccountId", "getAWSConfiguration",
      "init", "initClone", "initTemplate" }

Init ==
    /\ cmd \in Commands
    /\ pc = CASE cmd = "deploy" -> "P_proceed"
              [] cmd \in DeployRevisions -> "Q_access"
              [] cmd = "dev" -> "W_up"
              [] cmd \in { "devCore", "devBaas" } -> "W_env"
              [] cmd = "getAWSConfiguration" -> "N_accountId"
              [] cmd = "initClone" -> "G_proceed"
              [] cmd = "initTemplate" -> "T_answers"
              [] cmd = "destroy" -> "D_version"
              [] cmd = "destroyCdk" -> "K_access"
              [] cmd = "destroyStack" -> "X_access"
              [] cmd = "runCommand" -> "R_call"
              [] cmd = "checkAWSConfiguration" -> "A_call"
              [] cmd = "validateAccountId" -> "V_call"
              [] cmd = "init" -> "I_proceed"
    /\ arg \in CASE cmd = "runCommand" -> RunCommandCalls
                [] cmd = "validateAccountId" -> AccountIdInputs
                [] cmd = "init" -> PackageJsonFiles
                [] cmd = "initTemplate" -> { MissingFile, InvalidFile }
                [] cmd \in { "devCore", "devBaas" } -> BOOLEAN
                [] cmd = "destroy" -> ProvisionedAtStart
                [] cmd = "destroyStack" -> AccountStacksAtStart
                [] OTHER -> { None }
    /\ calls = CASE cmd = "destroy" -> << AwsVersion >>
                  [] cmd = "dev" -> << DockerComposeUp >>
                  [] OTHER -> << >>
    /\ ret = None
    /\ prompts = CASE cmd \in { "deploy", "init", "initClone" } ->
                        << "proceed" >>
                    [] cmd = "initTemplate" -> << "projectName, template" >>
                    [] cmd = "getAWSConfiguration" -> << "awsAccountId" >>
                    [] OTHER -> << >>
    /\ out = CASE cmd \in { "deploy" } \cup DeployRevisions ->
                    << << "Deploying Pendulum to AWS..." >> >>
               [] cmd \in { "init", "initClone", "initTemplate" } ->
                    << << "Initializing new Pendulum project..." >> >>
               [] cmd \in { "destroy", "destroyStack" } ->
                    << << "Destroying from AWS..." >> >>
               [] cmd = "destroyCdk" ->
                    << << "Destroying from AWS..." >>,
                       << "Using CLI from:", "cli" >> >>
               [] OTHER -> << >>
    /\ provisioned = CASE cmd \in { "destroy", "destroyStack" } -> arg
                       [] cmd = "destroyCdk" -> AllStacks
                       [] OTHER -> { }
    /\ fsOps = CASE cmd = "destroyCdk" ->
                        << [op |-> "access", path |-> CliPackageJson] >>
                  [] cmd = "destroyStack" ->
                        << [op |-> "access", path |-> PendulumDir] >>
                  [] cmd \in DeployRevisions ->
                        << [op |-> "access", path |-> ProjectPaths(cmd)[1]] >>
                  [] OTHER -> << >>
    /\ results = << >>
    /\ exitCode = 0
    /\ proceed = FALSE
    /\ confirmDeployment = FALSE
    /\ confirmDestruction = << >>
    /\ attempts = 0
    /\ awsRegion = None
    /\ stacksToDestroy = << >>
    /\ idx = 0
    /\ failedStack = None
    /\ adminKey = Null
    /\ loadBalancerURL = Null
    /\ cloudFrontURL = Null
    /\ lookups = << >>
    /\ lookupResults = << >>
    /\ events = << >>
    /\ packageJson = IF cmd \in { "init", "initTemplate" } THEN arg ELSE None

Next ==
    \/ DestroyCommand
    \/ DeployCommand
    \/ DestroyCdkCommand
    \/ DestroyStackCommand
    \/ DeployRevisionCommand
    \/ DevCommand
    \/ DevCommand_copyEnv
    \/ DevCommand_composeUp
    \/ Utilities
    \/ getAWSConfiguration_validate
    \/ getAWSConfiguration_awsAccountId
    \/ getAWSConfiguration_awsRegion
    \/ InitCommand
    \/ InitClone_proceed
    \/ addPendulumBackend
    \/ InitTemplate_answers
    \/ InitTemplate_mkdir
    \/ InitTemplate_writeFile

Spec == Init /\ [][Next]_vars

---------------------------------------------------------------------------
(* Reading the logs. *)

IsPrefix(a, b) == Len(a) <= Len(b) /\ a = SubSeq(b, 1, Len(a))

\* The k-th child has settled / was rejected.
Settled(k) == k <= Len(results)
Failed(k) == Settled(k) /\ ~results[k]

IsDeployCall(c) == IsCdk(c, "deploy")

DeleteCalls == SelectSeq(calls, IsDeleteStack)

RECURSIVE StackNames(_)
StackNames(cs) ==
    IF cs = << >> THEN << >>
    ELSE << StackNameOf(Head(cs)) >> \o StackNames(Tail(cs))

Printed(line) == \E n \in 1..Len(out) : out[n] = line

DeploySucceeded == Printed(DeploySuccessLines[1])
DestroySucceeded == Printed(DestroySuccessLines[1])

\* The children DeployCommand's try block starts, in program order.
DeploySteps ==
    << GetCallerIdentity("inherit"), NpmInstall, CdkBootstrap,
       CdkDeployBackend, CdkDeployFrontend >>

BackendStep == CHOOSE k \in 1..Len(DeploySteps) : DeploySteps[k] = CdkDeployBackend

---------------------------------------------------------------------------
(* Claims. *)

\* C1: in a deploy run the children are started only after both
\* confirmations, one at a time, in the order identity check, dependency
\* install, CDK bootstrap, backend deploy, frontend deploy; when the backend
\* deploy fails the frontend deploy is not started, no output lookup is
\* started and the process exits with status 1.
C1_DeployStepsInOrder ==
    cmd = "deploy" =>
        /\ IsPrefix(calls, DeploySteps)
        /\ Len(calls) <= Len(results) + 1
        /\ (calls # << >> => proceed /\ confirmDeployment)
        /\ (Failed(BackendStep) =>
                /\ pc = "done"
                /\ Len(calls) = BackendStep
                /\ lookups = << >>
                /\ exitCode = 1)

C1_Witness ==
    /\ cmd = "deploy"
    /\ Failed(BackendStep)
    /\ failedStack = DatabaseStack
    /\ provisioned = { NetworkStack, SecurityStack }

\* C2: once destroyStacks has run to its end, the delete-stack calls name the
\* stacks of its list one by one, in the list's order, N calls for N stacks,
\* whichever of them failed; while it runs, the calls made so far name the
\* first idx stacks of the list.
C2_EveryStackAttempted ==
    (cmd = "destroy" /\ stacksToDestroy # << >>) =>
        /\ StackNames(DeleteCalls) = SubSeq(stacksToDestroy, 1, Len(DeleteCalls))
        /\ pc \in { "D_delete", "D_wait" } => Len(DeleteCalls) = idx
        /\ pc = "done" => StackNames(DeleteCalls) = stacksToDestroy

C2_Witness ==
    /\ cmd = "destroy"
    /\ pc = "done"
    /\ Len(DeleteCalls) = Len(potentialStacks)
    /\ \A k \in 1..Len(calls) : IsDeleteStack(calls[k]) => Failed(k)

\* C3: when the delete-stack or the wait of at least one stack failed, the
\* finished destroy run ends with a non-zero exit status and does not print
\* its success message.
C3_FailedTeardownExitsNonZero ==
    ( /\ cmd = "destroy"
      /\ pc = "done"
      /\ \E k \in 1..Len(calls) :
            (IsDeleteStack(calls[k]) \/ IsWait(calls[k])) /\ Failed(k) )
        => (exitCode # 0 /\ ~DestroySucceeded)

Reverse(s) == [k \in 1..Len(s) |-> s[Len(s) + 1 - k]]

\* The stacks named by the cdk deploy commands started so far, in order.
RECURSIVE NamedBy(_)
NamedBy(cs) ==
    IF cs = << >> THEN << >>
    ELSE StacksNamed(Head(cs)) \o NamedBy(Tail(cs))

DeployedNames == NamedBy(SelectSeq(calls, IsDeployCall))

\* C4: the deploy order is Network, Security, Database, Application,
\* Frontend; the list destroyStacks walks is its exact reverse, the
\* delete-stack calls follow it, a stack's delete-stack is never issued
\* before that of a stack depending on it, and a finished teardown has
\* named the same stacks as the deploy.
C4_TeardownReversesDeploy ==
    /\ DeployOrder = DeclaredStacks
    /\ (cmd = "deploy" /\ DeploySucceeded) => DeployedNames = DeployOrder
    /\ (cmd = "destroy" /\ stacksToDestroy # << >>) =>
        LET names == StackNames(DeleteCalls) IN
        /\ stacksToDestroy = Reverse(DeployOrder)
        /\ IsPrefix(names, Reverse(DeployOrder))
        /\ \A e \in DependsOn, j \in 1..Len(names) :
              names[j] = e[2] => \E i \in 1..(j - 1) : names[i] = e[1]
        /\ pc = "done" => Range(names) = Range(DeployOrder)

C4_Witness ==
    /\ cmd = "destroy"
    /\ pc = "done"
    /\ StackNames(DeleteCalls)
          = << FrontendStack, ApplicationStack, DatabaseStack, SecurityStack,
               NetworkStack >>

\* C5: a destroy run starts a destructive child (delete-stack, cdk destroy)
\* only when the confirm prompt was answered yes and, after it, the phrase
\* prompt returned DESTROY (as DestroyCommand reads it, i.e. trimmed; C10 is
\* about the exactness of the phrase); while the confirm prompt has not been
\* answered yes, neither the AWS configuration prompt nor the phrase prompt
\* is shown and the backend's stacks are untouched.
C5_TwoConfirmationsBeforeDestruction ==
    cmd = "destroy" =>
        /\ (\E k \in 1..Len(calls) : IsDestructive(calls[k])) =>
              /\ proceed
              /\ Trim(confirmDestruction) = DESTROY
              /\ prompts
                    = << "proceed", "getAWSConfiguration", "confirmDestruction" >>
        /\ ~proceed =>
              /\ IsPrefix(prompts, << "proceed" >>)
              /\ \A k \in 1..Len(calls) : ~IsDestructive(calls[k])
              /\ provisioned = arg

C5_Witness ==
    /\ cmd = "destroy"
    /\ proceed
    /\ \E k \in 1..Len(calls) : IsDestructive(calls[k])

IdentityCalls == SelectSeq(calls, IsGetCallerIdentity)

BothConfirmed == proceed /\ Trim(confirmDestruction) = DESTROY

\* C6: in a destroy run that passed both confirmations the identity check
\* `aws sts get-caller-identity` is started exactly once, before every
\* delete-stack; when it fails there is no delete-stack and the exit status
\* is 1.
C6_IdentityCheckedExactlyOnce ==
    (cmd = "destroy" /\ BothConfirmed) =>
        /\ Len(IdentityCalls) = 1
        /\ \A k \in 1..Len(calls) :
              IsDeleteStack(calls[k]) =>
                  \E j \in 1..(k - 1) :
                      IsGetCallerIdentity(calls[j]) /\ Settled(j) /\ results[j]
        /\ (\E j \in 1..Len(calls) : IsGetCallerIdentity(calls[j]) /\ Failed(j)) =>
              (DeleteCalls = << >> /\ exitCode = 1)

\* How many cdk deploy commands named stack s.
DeployInvocations(s) ==
    Cardinality({ k \in 1..Len(calls) :
                    IsDeployCall(calls[k]) /\ s \in Range(StacksNamed(calls[k])) })

\* C7 as stated: a successful deploy run has provisioned the frontend stack
\* and then re-provisioned it exactly once (two cdk deploy commands name it),
\* and has provisioned every other stack exactly once.
C7_FrontendReprovisionedOnce ==
    (cmd = "deploy" /\ pc = "done" /\ DeploySucceeded) =>
        /\ DeployInvocations(FrontendStack) = 2
        /\ \A s \in AllStacks \ { FrontendStack } : DeployInvocations(s) = 1

\* C7 amended: in a deploy run no stack is named by more than one cdk deploy
\* command, a successful run has named every stack exactly once, and the
\* frontend stack's command is started when the stack its apiEndpoint refers
\* to is already provisioned; there is no placeholder and no re-provisioning.
C7_EveryStackProvisionedOnce ==
    cmd = "deploy" =>
        /\ \A s \in AllStacks : DeployInvocations(s) <= 1
        /\ (pc = "done" /\ DeploySucceeded) =>
              \A s \in AllStacks : DeployInvocations(s) = 1
        /\ DeployInvocations(FrontendStack) = 1 => apiEndpoint.stack \in provisioned

C7_Witness ==
    /\ cmd = "deploy"
    /\ pc = "done"
    /\ DeploySucceeded
    /\ provisioned = AllStacks

\* C8: when the backend failed on one of the four backend stacks, some line
\* shown by the finished deploy run names that stack.
C8_ErrorNamesFailingStack ==
    (cmd = "deploy" /\ pc = "done" /\ failedStack \in Range(backendStacks)) =>
        \E n \in 1..Len(out) : failedStack \in Range(out[n])

\* C9: the cdk deploy commands of a deploy run name the declared stacks in
\* the order Network, Security, Database, Application, Frontend, none twice,
\* each after every stack it depends on; a successful run has named every
\* declared stack; the frontend command is started only after a command
\* naming the application stack has succeeded.
C9_DeployOrderRespectsDependencies ==
    cmd = "deploy" =>
        LET names == DeployedNames IN
        /\ IsPrefix(names, DeclaredStacks)
        /\ \A e \in DependsOn, j \in 1..Len(names) :
              names[j] = e[1] => \E i \in 1..(j - 1) : names[i] = e[2]
        /\ DeploySucceeded => names = DeclaredStacks
        /\ \A k \in 1..Len(calls) :
              (IsDeployCall(calls[k]) /\ FrontendStack \in Range(StacksNamed(calls[k])))
                  => \E j \in 1..(k - 1) :
                        /\ IsDeployCall(calls[j])
                        /\ ApplicationStack \in Range(StacksNamed(calls[j]))
                        /\ Settled(j)
                        /\ results[j]

C9_Witness ==
    /\ cmd = "deploy"
    /\ pc = "P_frontend"
    /\ DeployedNames = DeclaredStacks

\* The phrase prompt has returned.
PhraseAnswered == "confirmDestruction" \in Range(prompts) /\ pc # "D_phrase"

\* s is DESTROY with nothing but whitespace before and after it.
IsPaddedDestroy(s) ==
    \E i \in 1..(Len(s) + 1), j \in 0..Len(s) :
        /\ SubSeq(s, i, j) = DESTROY
        /\ \A k \in 1..(i - 1) : s[k] \in Whitespace
        /\ \A k \in (j + 1)..Len(s) : s[k] \in Whitespace

\* C10 as stated: the text the phrase prompt returns, and so the text behind
\* every destructive call, is exactly DESTROY.
C10_OnlyExactPhraseAccepted ==
    (cmd = "destroy" /\ PhraseAnswered) => confirmDestruction = DESTROY

\* C10 amended: the text the phrase prompt returns, and so the text behind
\* every destructive call, is DESTROY in exactly that case, with nothing
\* added but leading or trailing whitespace.
C10_OnlyPaddedPhraseAccepted ==
    cmd = "destroy" =>
        /\ PhraseAnswered => IsPaddedDestroy(confirmDestruction)
        /\ (\E k \in 1..Len(calls) : IsDestructive(calls[k])) =>
              (PhraseAnswered /\ IsPaddedDestroy(confirmDestruction))

C10_Witness ==
    /\ cmd = "destroy"
    /\ confirmDestruction # DESTROY
    /\ \E k \in 1..Len(calls) : IsDestructive(calls[k])

---------------------------------------------------------------------------
(* Claims C11 and C12: the gates and the output lookups of DeployCommand. *)

\* The deploy run returned after the operator declined one of its two gates.
DeployDeclined ==
    cmd = "deploy" /\ pc = "done" /\ ~(proceed /\ confirmDeployment)

\* C11: when the operator answers no to the first confirmation or to the
\* final "Proceed with deployment?" confirmation, DeployCommand has started
\* no child process and no output lookup, has provisioned nothing, and
\* returns with "Deployment cancelled." without calling process.exit.
C11_DeclinedDeployDoesNothing ==
    DeployDeclined =>
        /\ calls = << >>
        /\ results = << >>
        /\ lookups = << >>
        /\ lookupResults = << >>
        /\ provisioned = {}
        /\ exitCode = 0
        /\ Printed(<< "Deployment cancelled." >>)
        /\ ~Printed(DeploySuccessLines[1])

\* The operator accepted the first gate and declined the second.
C11_Witness ==
    /\ DeployDeclined
    /\ proceed
    /\ ~confirmDeployment
    /\ prompts = << "proceed", "getAWSConfiguration",
                    "getFrontendConfigration", "confirmDeployment" >>

\* The value the k-th lookup left in its variable.
LookupValue(k) ==
    CASE k = 1 -> adminKey
      [] k = 2 -> loadBalancerURL
      [] k = 3 -> cloudFrontURL

\* C12: after both deploy commands succeeded, a lookup that finds nothing
\* or whose SDK call throws yields null; the three lookups all run, the run
\* still prints its success message and process.exit(1) is not called.
C12_FailedLookupYieldsNull ==
    cmd = "deploy" =>
        /\ \A k \in 1..Len(lookupResults) :
              lookupResults[k] # "found" => LookupValue(k) = Null
        /\ (lookups # << >> => exitCode = 0)
        /\ (pc = "done" /\ lookups # << >> =>
                /\ Len(lookupResults) = 3
                /\ DeploySucceeded
                /\ Printed(DeploySuccessLines[1]))

\* All three lookups failed, one by finding nothing and one by throwing.
C12_Witness ==
    /\ cmd = "deploy"
    /\ pc = "done"
    /\ lookupResults = << "absent", "error", "absent" >>
    /\ adminKey = Null /\ loadBalancerURL = Null /\ cloudFrontURL = Null
    /\ exitCode = 0
    /\ Printed(DeploySuccessLines[1])

---------------------------------------------------------------------------
(* Claim C13: the order of the `cdk destroy` variant. *)

IsCdkDestroy(c) == IsCdk(c, "destroy")

\* The stacks the `cdk destroy` children name, in the order they were started.
CdkDestroyedNames == NamedBy(SelectSeq(calls, IsCdkDestroy))

\* C13: in the `cdk destroy` variant the stacks are destroyed in reverse
\* dependency order, Frontend, Application, Database, Security, Network: the
\* stacks named by the `cdk destroy` children started so far are a prefix of
\* that list, so a stack is attempted only after every stack that depends
\* on it.
C13_CdkDestroyReverseDependencyOrder ==
    cmd = "destroyCdk" =>
        /\ IsPrefix(CdkDestroyedNames, potentialStacks)
        /\ \A k \in 1..Len(CdkDestroyedNames) :
              \A e \in DependsOn :
                e[2] = CdkDestroyedNames[k] =>
                    \E j \in 1..(k - 1) : CdkDestroyedNames[j] = e[1]

---------------------------------------------------------------------------
(* Claims C15 to C17: runCommand and checkAWSConfiguration. *)

Fulfilled == [state |-> "fulfilled", reason |-> << >>]
RejectedWith(msg) == [state |-> "rejected", reason |-> msg]

\* C15: the promise of runCommand is pending until the child emits an
\* event; it is fulfilled if and only if that event is `close` with exit
\* code 0, it is rejected with "Command failed with exit code N" when the
\* event is `close` with a non-zero code N, and it is rejected with the
\* emitted error when the event is `error`.
C15_RunCommandSettlesFromChild ==
    cmd = "runCommand" /\ pc = "R_child" =>
        IF events = << >>
        THEN ret = Pending
        ELSE LET e == events[1] IN
             /\ (ret = Fulfilled <=> e.ev = "close" /\ e.code = 0)
             /\ (e.ev = "close" /\ e.code # 0 =>
                    ret = RejectedWith(<< "Command failed with exit code",
                                          ExitCodeText(e.code) >>))
             /\ (e.ev = "error" => ret = RejectedWith(e.err))

\* The child closed with 127 and the promise was rejected with that code.
C15_Witness ==
    /\ cmd = "runCommand"
    /\ events # << >>
    /\ events[1].ev = "close"
    /\ events[1].code = CommandNotFound
    /\ ret = RejectedWith(<< "Command failed with exit code", "127" >>)

\* The stdio array ['inherit', 'ignore', 'inherit'].
InheritIgnoreInherit == "inherit,ignore,inherit"

\* C16: runCommand spawns the child with stdio ['inherit', 'ignore',
\* 'inherit'] when the caller gives no stdio, and otherwise passes the
\* caller's options through: the object given to spawn has the caller's
\* keys with the caller's values, plus that default stdio.
C16_DefaultStdioInheritIgnoreInherit ==
    cmd = "runCommand" /\ pc = "R_child" =>
        LET given == arg.options
            passed == calls[1].options
        IN
        /\ DOMAIN passed = DOMAIN given \cup { "stdio" }
        /\ \A k \in DOMAIN given : passed[k] = given[k]
        /\ ("stdio" \notin DOMAIN given =>
                passed.stdio = InheritIgnoreInherit)

\* C17: checkAWSConfiguration spawns exactly one child, `aws sts
\* get-caller-identity` with cwd set to the current directory; its promise
\* is fulfilled when that child closes with code 0, and for every other
\* event of the child (any non-zero exit code, any spawn error) it is
\* rejected with the one message "Run 'aws configure' to set up your AWS
\* credentials".
C17_IdentityCheckOneCommandOneMessage ==
    cmd = "checkAWSConfiguration" /\ pc # "A_call" =>
        /\ Len(calls) = 1
        /\ IsGetCallerIdentity(calls[1])
        /\ calls[1].options.cwd = "process.cwd()"
        /\ (pc # "done" => ret = Pending)
        /\ (pc = "done" =>
                IF events[1].ev = "close" /\ events[1].code = 0
                THEN ret = Fulfilled
                ELSE ret = RejectedWith(
                        << "Run 'aws configure' to set up your AWS credentials" >>))

\* The aws binary could not be spawned, and the rejection carries the
\* configure message instead of the spawn error.
C17_Witness ==
    /\ cmd = "checkAWSConfiguration"
    /\ pc = "done"
    /\ events[1].ev = "error"
    /\ ret.state = "rejected"
    /\ ret.reason # events[1].err

---------------------------------------------------------------------------
(* Claim C18: the account ID validator. *)

\* s is twelve digits with nothing but blanks before and after them.
IsPaddedAccountId(s) ==
    \E i \in 1..Len(s) :
        /\ i + AccountIdLength - 1 <= Len(s)
        /\ \A k \in 1..Len(s) :
              IF k < i \/ k > i + AccountIdLength - 1
              THEN s[k] \in Whitespace
              ELSE s[k] \in Digits

IsBlank(s) == \A k \in 1..Len(s) : s[k] \in Whitespace

\* C18: the account ID validator returns true exactly for the inputs that
\* are twelve decimal digits once surrounding blanks are removed; for an
\* empty or blank input it returns "AWS Account ID is required", and for
\* every other input "AWS Account ID must be exactly 12 digits".
C18_AccountIdValidator ==
    cmd = "validateAccountId" /\ pc = "done" =>
        /\ (ret = Resolved <=> IsPaddedAccountId(arg))
        /\ (IsBlank(arg) => ret = Rejected(AccountIdRequired))
        /\ (~IsBlank(arg) /\ ~IsPaddedAccountId(arg) =>
                ret = Rejected(AccountIdTwelveDigits))

\* Twelve digits typed with blanks around them were accepted.
C18_Witness ==
    /\ cmd = "validateAccountId"
    /\ pc = "done"
    /\ Len(arg) > AccountIdLength
    /\ IsPaddedAccountId(arg)
    /\ ret = Resolved

---------------------------------------------------------------------------
(* Claims C19 and C20: InitCommand and package.json. *)

\* C19: as long as the operator has not accepted the confirmation of
\* InitCommand, and for good once it is declined, no child process has been
\* started by runCommand, package.json has been neither read nor written and
\* is on disk as it was; a declined run prints "Setup cancelled." and
\* returns without process.exit.
C19_DeclinedInitTouchesNothing ==
    cmd = "init" /\ ~proceed =>
        /\ calls = << >>
        /\ results = << >>
        /\ fsOps = << >>
        /\ packageJson = arg
        /\ exitCode = 0
        /\ (pc = "done" => Printed(<< "Setup cancelled." >>))

\* The operator declined and the command returned.
C19_Witness ==
    /\ cmd = "init"
    /\ pc = "done"
    /\ ~proceed
    /\ arg.exists
    /\ Printed(<< "Setup cancelled." >>)

IsWriteFile(o) == o.op = "writeFile"
IsReadFile(o) == o.op = "readFile"

\* A confirmed InitCommand has ended after both installs succeeded.
InstallsSucceeded ==
    cmd = "init" /\ pc = "done" /\ proceed /\ results = << TRUE, TRUE >>

\* The package.json addNpmScripts finds: the project's file after the two
\* installs.
FileRead == NpmInstalled(NpmInstalled(arg, SdkPackage), CorePackage)

ScriptsOf(file) ==
    IF "scripts" \in DOMAIN file.obj /\ file.obj["scripts"].kind = "object"
    THEN file.obj["scripts"].entries
    ELSE NoEntries

\* `after` is `before` with the two scripts defined and nothing else
\* changed: same other top-level keys with the same values, same other
\* scripts with the same commands.
ScriptsAdded(before, after) ==
    /\ after.exists /\ after.valid
    /\ DOMAIN after.obj = DOMAIN before.obj \cup { "scripts" }
    /\ \A k \in DOMAIN before.obj \ { "scripts" } :
          after.obj[k] = before.obj[k]
    /\ after.obj["scripts"].kind = "object"
    /\ LET old == ScriptsOf(before)
           new == after.obj["scripts"].entries
       IN
       /\ DOMAIN new = DOMAIN old \cup { StartScript, StopScript }
       /\ new[StartScript] = StartCommand
       /\ new[StopScript] = StopCommand
       /\ \A n \in DOMAIN old \ { StartScript, StopScript } : new[n] = old[n]

\* C20 as stated: after a confirmed InitCommand whose installs succeed,
\* package.json has been written exactly once, it holds the two scripts,
\* every other top-level key and every other script is as it was read, a
\* missing scripts object has been created, and process.exit was not called.
C20_ScriptsAddedAfterInstalls ==
    InstallsSucceeded =>
        /\ Len(SelectSeq(fsOps, IsWriteFile)) = 1
        /\ ScriptsAdded(FileRead, packageJson)
        /\ exitCode = 0

\* The file was read and parsed, its scripts entry is absent, falsy or an
\* object, and the new text was written.
PackageJsonRewritten ==
    /\ Len(fsOps) = 2
    /\ fsOps[1].status = "ok"
    /\ fsOps[2].status = "ok"
    /\ FileRead.valid
    /\ ("scripts" \in DOMAIN FileRead.obj =>
            \/ ~Truthy(FileRead.obj["scripts"])
            \/ FileRead.obj["scripts"].kind = "object")

\* C20, amended: after a confirmed InitCommand whose installs succeed and
\* whose package.json is then read, parsed with a scripts entry that is
\* absent, falsy or an object, and written without error, package.json has
\* been read once and written once, it holds the two scripts, every other
\* top-level key and every other script is as it was read, a missing
\* scripts object has been created, and process.exit was not called.  When
\* the read, the parse or the update fails nothing is written, when any of
\* them or the write fails the process exits with status 1, and in no case
\* is package.json written more than once.
C20_ScriptsAddedWhenRewritten ==
    InstallsSucceeded =>
        /\ Len(SelectSeq(fsOps, IsReadFile)) = 1
        /\ Len(SelectSeq(fsOps, IsWriteFile)) <= 1
        /\ (PackageJsonRewritten =>
                /\ Len(SelectSeq(fsOps, IsWriteFile)) = 1
                /\ ScriptsAdded(FileRead, packageJson)
                /\ packageJson.indent = StringifyIndent
                /\ exitCode = 0
                /\ Printed(InitSuccessLines[1]))
        /\ (fsOps[Len(fsOps)].status = "failed" => exitCode = 1)
        /\ (Len(fsOps) = 1 => exitCode = 1 /\ packageJson = FileRead)

\* A project with scripts of its own kept them and got the two scripts.
C20_Witness ==
    /\ InstallsSucceeded
    /\ PackageJsonRewritten
    /\ "version" \in DOMAIN packageJson.obj
    /\ exitCode = 0
    /\ "test" \in DOMAIN ScriptsOf(arg)
    /\ "test" \in DOMAIN ScriptsOf(packageJson)
    /\ StartScript \in DOMAIN ScriptsOf(packageJson)

---------------------------------------------------------------------------
(* Claims C21 and C22: what a failing deploy step leaves behind. *)

FrontendStep ==
    CHOOSE k \in 1..Len(DeploySteps) : DeploySteps[k] = CdkDeployFrontend

\* The stacks of `stacks` ahead of the one the backend failed on.
ProvisionedBefore(stacks, failed) ==
    { stacks[j] : j \in { i \in 1..Len(stacks) :
                            \A h \in 1..i : stacks[h] # failed } }

\* C21: a deploy run never starts a destroy, delete-stack or wait command;
\* when the frontend deploy fails after the backend deploy succeeded, the
\* failing child is the last one, the four backend stacks are still
\* provisioned and the run ends with exit status 1; when the backend deploy
\* fails part-way, the stacks provisioned ahead of the failing one stay.
C21_NoRollbackAfterFailedDeploy ==
    cmd = "deploy" =>
        /\ \A k \in 1..Len(calls) :
              ~IsDestructive(calls[k]) /\ ~IsWait(calls[k])
        /\ (Failed(FrontendStep) =>
                /\ pc = "done"
                /\ Len(calls) = FrontendStep
                /\ provisioned = Range(backendStacks)
                /\ exitCode = 1)
        /\ (Failed(BackendStep) /\ failedStack # None =>
                /\ pc = "done"
                /\ Len(calls) = BackendStep
                /\ provisioned = ProvisionedBefore(backendStacks, failedStack)
                /\ exitCode = 1)

\* The frontend deploy failed after the backend deploy had provisioned its
\* four stacks.
C21_Witness ==
    /\ cmd = "deploy"
    /\ pc = "done"
    /\ Failed(FrontendStep)
    /\ results[BackendStep]
    /\ provisioned = Range(backendStacks)
    /\ exitCode = 1

\* C22: in a deploy run the only failure that does not fail the run is a
\* lookup that comes back absent: a child that fails (identity check,
\* dependency install, CDK bootstrap, backend deploy, frontend deploy) is
\* the last child started and the run ends with exit status 1, and a lookup
\* that throws ends the run with exit status 1 as well.
C22_OnlyAbsentLookupAbsorbed ==
    cmd = "deploy" =>
        /\ \A k \in 1..Len(results) :
              ~results[k] =>
                  /\ pc = "done"
                  /\ Len(calls) = k
                  /\ exitCode = 1
        /\ \A k \in 1..Len(lookupResults) :
              lookupResults[k] = "error" => pc = "done" /\ exitCode = 1

---------------------------------------------------------------------------
(* Claims C23 and C24: the teardown loop of the delete-stack variant. *)

\* C23: in a destroy run at most one child is unsettled at any time; a wait
\* for deletion is started only right after the delete-stack of the same
\* stack succeeded, a failed delete-stack is never followed by a wait, and
\* the delete-stack of the next stack is started only when the previous
\* stack's delete-stack has failed or its wait has settled.
C23_TeardownOneCommandAtATime ==
    cmd = "destroy" =>
        /\ Len(calls) <= Len(results) + 1
        /\ \A k \in 1..Len(calls) :
              /\ (IsWait(calls[k]) =>
                    /\ k > 1
                    /\ IsDeleteStack(calls[k - 1])
                    /\ StackNameOf(calls[k - 1]) = StackNameOf(calls[k])
                    /\ results[k - 1])
              /\ (IsDeleteStack(calls[k]) /\ k < Len(calls) =>
                    IF results[k]
                    THEN IsWait(calls[k + 1])
                    ELSE IsDeleteStack(calls[k + 1]))
              /\ (IsDeleteStack(calls[k]) /\ k > 1 /\ IsWait(calls[k - 1]) =>
                    Settled(k - 1))

\* A delete-stack failed and was followed by the next stack's delete-stack;
\* that one succeeded, its wait was awaited, and a third delete-stack is in
\* flight.
C23_Witness ==
    /\ cmd = "destroy"
    /\ pc = "D_delete"
    /\ \E k \in 1..Len(calls) :
         /\ k + 3 = Len(calls)
         /\ IsDeleteStack(calls[k]) /\ ~results[k]
         /\ IsDeleteStack(calls[k + 1]) /\ results[k + 1]
         /\ IsWait(calls[k + 2]) /\ Settled(k + 2)
         /\ IsDeleteStack(calls[k + 3]) /\ ~Settled(k + 3)

\* The report of destroyStacks holds the failure line for `stack`.
ReportedCouldntDestroy(stack) ==
    \E n \in 1..Len(out) :
        IsPrefix(<< "Couldn't destroy", stack, ":" >>, out[n])

ReportedDestroyed(stack) == Printed(<< "Successfully destroyed:", stack >>)

\* The destroy run has walked the whole list.
TeardownCompleted == cmd = "destroy" /\ pc = "done" /\ stacksToDestroy # << >>

\* C24: a stack that was already absent when the destroy run started is
\* never reported with the line used for a failed stack, whatever the
\* backend answered for it; and a destroy run started after a completed
\* teardown, with no stack left, attempts every stack again and ends with
\* the success message and exit status 0.
C24_AbsentStackNotReportedFailed ==
    cmd = "destroy" =>
        /\ \A s \in AllStacks \ arg : ~ReportedCouldntDestroy(s)
        /\ (TeardownCompleted /\ arg = { } =>
                /\ StackNames(DeleteCalls) = potentialStacks
                /\ DestroySucceeded
                /\ exitCode = 0)

---------------------------------------------------------------------------
(* Claim C25: a failed identity check in DeployCommand. *)

IdentityStep ==
    CHOOSE k \in 1..Len(DeploySteps) : IsGetCallerIdentity(DeploySteps[k])

ConfigureHint == << "Run 'aws configure' to set up your AWS credentials" >>

\* C25: when the identity check of a deploy run fails, the identity check
\* is the only child the run has started (no dependency install, no CDK
\* bootstrap, no backend or frontend deploy, no lookup), nothing is
\* provisioned, the error printed is the hint to run 'aws configure', and
\* the process exits with status 1.
C25_FailedIdentityCheckStopsDeploy ==
    cmd = "deploy" /\ Failed(IdentityStep) =>
        /\ pc = "done"
        /\ calls = << GetCallerIdentity("inherit") >>
        /\ lookups = << >>
        /\ provisioned = { }
        /\ Printed(<< "Deployment failed:" >> \o ConfigureHint)
        /\ exitCode = 1

\* The identity check failed in a confirmed deploy run.
C25_Witness ==
    /\ cmd = "deploy"
    /\ proceed /\ confirmDeployment
    /\ Failed(IdentityStep)
    /\ exitCode = 1

---------------------------------------------------------------------------
(* Claim C26: what checkStackExists looks up. *)

DescribeCalls == SelectSeq(calls, IsDescribeStacks)

\* The stacks of DeployCommand that the account held when the run started.
DeployedAtStart == arg \cap AllStacks

NoStackFound == Printed(NoStackFoundLines[2])

\* C26: in the checkStackExists variant, the existence check asks for a
\* stack DeployCommand creates; a finished run that started with a deployed
\* stack, passed both confirmations and the identity check, has invoked
\* `cdk destroy --force`; and the "No Pendulum stack found to destroy."
\* return is taken only when no deployed stack existed.
C26_ExistenceCheckLooksUpDeployedStacks ==
    cmd = "destroyStack" =>
        /\ \A k \in 1..Len(DescribeCalls) :
               DescribeCalls[k].args[4] \in AllStacks
        /\ (/\ pc = "done"
            /\ DeployedAtStart # { }
            /\ Len(results) >= 1 /\ results[1])
               => \E k \in 1..Len(calls) : calls[k] = CdkDestroyApp
        /\ NoStackFound => DeployedAtStart = { }

---------------------------------------------------------------------------
(* Claim C27: the phrase prompt's validator and the check after it. *)

DestroyVariants == { "destroy", "destroyCdk", "destroyStack" }

DestructionCancelled == Printed(<< "Destruction cancelled." >>)

\* C27: in DestroyCommand the validator of the phrase prompt and the check
\* made after the prompt decide alike on every input the open prompt can be
\* given (both test whether the trimmed input is DESTROY); DESTROY with
\* leading or trailing whitespace passes both; and once the validator has accepted the text the prompt
\* returned, the "Destruction cancelled." branch is not taken: the run goes
\* on to the identity check.
C27_ValidatorAndPostCheckAgree ==
    /\ (cmd \in DestroyVariants /\ pc = "D_phrase") =>
        \A input \in PhraseInputs :
            /\ validate(input).ok <=> ~confirmDestructionDeclined(input)
            /\ IsPaddedDestroy(input) =>
                  validate(input).ok /\ ~confirmDestructionDeclined(input)
    /\ (cmd \in DestroyVariants /\ PhraseAnswered) =>
        /\ validate(confirmDestruction).ok
        /\ ~DestructionCancelled
        /\ \E k \in 1..Len(calls) : calls[k] = GetCallerIdentity("inherit")

\* The prompt returned DESTROY with whitespace around it and the run went on
\* to the identity check.
C27_Witness ==
    /\ cmd \in DestroyVariants
    /\ PhraseAnswered
    /\ confirmDestruction \in PhraseInputs \ { DESTROY }
    /\ pc = "D_identity"

---------------------------------------------------------------------------
(* Claim C28: the events of one child and the promise of runCommand. *)

\* C28: the promise of runCommand is settled by the first event the child
\* emits, `close` or `error`, and stays as that event left it whatever
\* event follows; when the first event is a `close` whose exit code is
\* null the promise is rejected, with "Command failed with exit code null".
C28_SettledOnceByFirstEvent ==
    cmd = "runCommand" /\ pc = "R_child" /\ events # << >> =>
        LET first == events[1] IN
        /\ ret.state # "pending"
        /\ ret.state = "fulfilled" <=> first.ev = "close" /\ first.code = 0
        /\ first.ev = "error" => ret.reason = first.err
        /\ first.ev = "close" /\ first.code = NullExitCode =>
              ret = RejectedWith(<< "Command failed with exit code", Null >>)
        /\ \A k \in 2..Len(events) :
              ret = Settle(Pending, runCommand(first))

\* A child ended by a signal closed with a null code, then a second event
\* of the other kind arrived; and the reverse order, an error first and a
\* close with code 0 after it.
C28_Witness ==
    /\ cmd = "runCommand"
    /\ Len(events) = 2
    /\ \/ /\ events[1].ev = "close" /\ events[1].code = NullExitCode
          /\ events[2].ev = "error"
       \/ /\ events[1].ev = "error"
          /\ events[2].ev = "close" /\ events[2].code = 0
    /\ ret.state = "rejected"

---------------------------------------------------------------------------
(* Claim C29: the three ways a deploy run ends. *)

InstallStep == CHOOSE k \in 1..Len(DeploySteps) : DeploySteps[k] = NpmInstall

Succeeded(k) == Settled(k) /\ results[k]

\* Returned after a declined gate: nothing started, no process.exit.
DeployEndedCancelled ==
    /\ Printed(<< "Deployment cancelled." >>)
    /\ calls = << >> /\ lookups = << >>
    /\ exitCode = 0

\* Left through the catch block and process.exit(1).
DeployEndedFailed ==
    /\ \E n \in 1..Len(out) : IsPrefix(<< "Deployment failed:" >>, out[n])
    /\ exitCode = 1

DeployEndedSucceeded == DeploySucceeded /\ exitCode = 0

\* C29: a deploy run that has ended is in exactly one of three outcomes:
\* cancelled at a gate (no child started, no lookup, exit status 0),
\* failed (catch block, exit status 1), or succeeded (success message, exit
\* status 0); and the success message is printed only after the identity
\* check, the dependency install, the backend deploy and the frontend
\* deploy have all succeeded.
C29_DeployEndsInOneOfThreeOutcomes ==
    cmd = "deploy" =>
        /\ pc = "done" =>
            /\ DeployEndedCancelled \/ DeployEndedFailed \/ DeployEndedSucceeded
            /\ ~(DeployEndedCancelled /\ DeployEndedFailed)
            /\ ~(DeployEndedCancelled /\ DeployEndedSucceeded)
            /\ ~(DeployEndedFailed /\ DeployEndedSucceeded)
            /\ DeployEndedCancelled <=> ~(proceed /\ confirmDeployment)
        /\ DeploySucceeded =>
            /\ pc = "done"
            /\ Succeeded(IdentityStep) /\ Succeeded(InstallStep)
            /\ Succeeded(BackendStep) /\ Succeeded(FrontendStep)

\* A run that ended with the success message although the bootstrap child
\* failed: the four steps the message depends on all succeeded.
C29_Witness ==
    /\ cmd = "deploy"
    /\ pc = "done"
    /\ DeployEndedSucceeded
    /\ \E k \in 1..Len(results) : ~results[k]

---------------------------------------------------------------------------
(* Claim C30: the order of InitCommand's steps. *)

InitInstalls == << InitInstall(SdkPackage), InitInstall(CorePackage) >>

\* C30: a confirmed InitCommand starts `npm install` of the SDK package,
\* then of the core package, then reads and writes package.json, each step
\* only after the one before it succeeded: the core install is started only
\* after the SDK install succeeded, package.json is read only after both
\* installs succeeded and written only after it was read; when either
\* install fails, no later install is started, package.json is neither
\* read nor written and the process exits with status 1.
C30_InitStepsInOrder ==
    cmd = "init" =>
        /\ IsPrefix(calls, InitInstalls)
        /\ Len(calls) <= Len(results) + 1
        /\ (Len(calls) = 2 => Succeeded(1))
        /\ (fsOps # << >> =>
                /\ Succeeded(1) /\ Succeeded(2)
                /\ IsReadFile(fsOps[1])
                /\ Len(fsOps) <= 2)
        /\ (Len(fsOps) = 2 =>
                IsWriteFile(fsOps[2]) /\ fsOps[1].status = "ok")
        /\ \A k \in 1..Len(InitInstalls) :
              Failed(k) =>
                /\ pc = "done"
                /\ Len(calls) = k
                /\ fsOps = << >>
                /\ exitCode = 1

\* The SDK install succeeded and the core install failed.
C30_Witness ==
    /\ cmd = "init"
    /\ proceed
    /\ results = << TRUE, FALSE >>
    /\ fsOps = << >>
    /\ exitCode = 1

====
